---- MODULE Spec2Model ----
(***************************************************************************)
(* Model of the n-gram search-query analyser: the tokenizer and n-gram     *)
(* extractor of core/cleaner.py, the two aggregation strategies of         *)
(* core/analyzer.py and the waste detector of core/money_wasters.py.       *)
(*                                                                         *)
(* Text is modelled as a sequence of characters, each character a          *)
(* one-element string; a token and an n-gram are such sequences too.       *)
(* Money and counts are exact integers, ratios are reduced fractions       *)
(* <<numerator, denominator>>; floating-point rounding is not modelled.    *)
(***************************************************************************)
EXTENDS Integers, Sequences, FiniteSets, TLC

VARIABLES
    query,            \* extract_ngrams: the query argument
    ngrams,           \* extract_ngrams: the returned list
    xpc,              \* extract_ngrams: "idle" | "call" | "returned"
    n,                \* the n-gram size argument
    stop_words,       \* the stop_words argument (None is the empty set)
    df,               \* the input table: a sequence of rows
    columns,          \* df.columns: the columns the input table has
    min_occurrences,  \* the min_occurrences argument
    pc,               \* analyze_ngrams: "idle" | "start" | "loop" | "done" | "raised"
    i,                \* analyze_ngrams: the row the loop is at (0 before the loop)
    ngram_data,       \* analyze_ngrams: the accumulator, in insertion order
    result,           \* analyze_ngrams: the returned table
    error,            \* analyze_ngrams: the exception raised, if any
    vpc,              \* analyze_ngrams_vectorized: "idle" | "start" | "explode" | "group" | "derive" | "done" | "raised"
    df_copy,          \* analyze_ngrams_vectorized: the copy with its ngrams column
    df_exploded,      \* analyze_ngrams_vectorized: one row per n-gram
    vresult,          \* analyze_ngrams_vectorized: the grouped, then returned, table
    verror,           \* analyze_ngrams_vectorized: the exception raised, if any
    clean_words,      \* clean_query: the returned list
    reclean_words,    \* clean_query applied to the joined returned list
    cpc,              \* clean_query: "idle" | "call" | "cleaned" | "recleaned"
    waste_df,         \* identify_money_wasters: the df argument
    cost_threshold_percentile,  \* identify_money_wasters: argument
    cvr_threshold_percentile,   \* identify_money_wasters: argument
    cost_threshold,   \* identify_money_wasters: the cost quantile
    cvr_threshold,    \* identify_money_wasters: the cvr quantile
    money_wasters,    \* identify_money_wasters: the filtered, then returned, table
    scored,           \* identify_money_wasters: the waste_score column exists
    wpc,              \* identify_money_wasters: "idle" | "start" | "filter" | "score" | "sort" | "done"
    kw_money_wasters, \* generate_negative_keywords: the money_wasters argument
    min_waste_score,  \* generate_negative_keywords: argument
    max_results,      \* generate_negative_keywords: argument
    negative_keywords, \* generate_negative_keywords: the returned list
    kpc,              \* generate_negative_keywords: "idle" | "call" | "returned"
    wk_pc,            \* concurrent analyze_ngrams calls: each call's position
    wk_i,             \* concurrent analyze_ngrams calls: each call's loop row
    wk_ngram_data,    \* the accumulators, by accumulator
    wk_result,        \* concurrent analyze_ngrams calls: each call's returned table
    wk_error,         \* concurrent analyze_ngrams calls: each call's exception
    results,          \* save_analysis: the results argument, the caller's mapping
    saved_file,       \* the JSON text of the 'results' member of the written file
    loaded,           \* load_analysis: the returned mapping
    store_pc,         \* "idle" | "start" | "saved" | "loaded"
    upload_columns,   \* validate_and_map_columns: df.columns of the caller's table
    upload_rows,      \* validate_and_map_columns: the rows of the caller's table
    mapped,           \* validate_and_map_columns: the column each target is read from
    validated,        \* validate_and_map_columns: the returned table
    val_error,        \* validate_and_map_columns: the exception raised, if any
    val_pc,           \* "idle" | "start" | "done" | "raised"
    app_df,           \* run_analysis: the df argument
    settings,         \* run_analysis: the settings argument
    stop_words_tuple, \* run_analysis: the stop words as passed to the cached call
    run_results,      \* run_analysis: the local results, in insertion order
    run_k,            \* run_analysis: the position in settings['ngram_sizes']
    analyzed_data,    \* st.session_state.analyzed_data
    cache,            \* the entries of the cache of run_analysis_cached
    computed,         \* the sizes whose call ran the body in this run (line 165 logs it)
    shown_errors,     \* the errors shown in this run (line 202)
    run_count,        \* the number of runs started
    app_pc            \* "idle" | "ready" | "loop"

input_vars == <<n, stop_words, df, columns, min_occurrences>>
extract_vars == <<query, ngrams, xpc>>
std_vars == <<pc, i, ngram_data, result, error>>
vec_vars == <<vpc, df_copy, df_exploded, vresult, verror>>
clean_vars == <<clean_words, reclean_words, cpc>>
waste_vars == <<waste_df, cost_threshold_percentile, cvr_threshold_percentile,
                cost_threshold, cvr_threshold, money_wasters, scored, wpc>>
keyword_vars == <<kw_money_wasters, min_waste_score, max_results,
                  negative_keywords, kpc>>
parallel_vars == <<wk_pc, wk_i, wk_ngram_data, wk_result, wk_error>>
store_vars == <<results, saved_file, loaded, store_pc>>
validator_vars == <<upload_columns, upload_rows, mapped, validated, val_error, val_pc>>
app_vars == <<app_df, settings, stop_words_tuple, run_results, run_k, analyzed_data,
              cache, computed, shown_errors, run_count, app_pc>>
extra_vars == <<parallel_vars, store_vars, validator_vars, app_vars>>
detector_vars == <<clean_vars, waste_vars, keyword_vars, extra_vars>>
tool_vars == <<extract_vars, std_vars, vec_vars, clean_vars, waste_vars, keyword_vars>>
vars == <<query, ngrams, xpc, n, stop_words, df, columns, min_occurrences,
          pc, i, ngram_data, result, error,
          vpc, df_copy, df_exploded, vresult, verror,
          clean_words, reclean_words, cpc,
          waste_df, cost_threshold_percentile, cvr_threshold_percentile,
          cost_threshold, cvr_threshold, money_wasters, scored, wpc,
          kw_money_wasters, min_waste_score, max_results, negative_keywords, kpc,
          wk_pc, wk_i, wk_ngram_data, wk_result, wk_error,
          results, saved_file, loaded, store_pc,
          upload_columns, upload_rows, mapped, validated, val_error, val_pc,
          app_df, settings, stop_words_tuple, run_results, run_k, analyzed_data,
          cache, computed, shown_errors, run_count, app_pc>>

(***************************************************************************)
(* Bounds of the model.                                                    *)
(***************************************************************************)
MaxQueryLen == 5
MaxN == 2
MaxRows == 2
MaxSchemaRows == 1
MaxMinOccurrences == 2
MaxCleanLen == 4
MaxWasteRows == 3
MaxKeywordRows == 3
MaxResults == 2
MaxStopRows == 2
MaxWorkers == 2
MaxParallelRows == 2
MaxStoreRows == 1
MaxStoreKeys == 2
MaxValidatorRows == 2
MaxRuns == 2

(***************************************************************************)
(* Characters.  "B" stands for the uppercase letters, "a" and "b" for the  *)
(* lowercase ones, "_" for the underscore, " " for whitespace and "!" for  *)
(* punctuation.  "I" stands for U+0130, the one letter whose lowercase is  *)
(* two characters ("i" and the combining dot U+0307, written "^", which is *)
(* not a word character), and "C" for the uppercase letters that have no   *)
(* lowercase form, such as U+2102.                                         *)
(***************************************************************************)
Chars == {"a", "B", "_", " ", "!"}

CleanChars == Chars \cup {"I", "C"}

Range(s) == {s[k] : k \in 1..Len(s)}

Max(a, b) == IF a > b THEN a ELSE b

\* every character of the model, in code point order
Alphabet == <<" ", "!", ".", "1", "5", "B", "N", "_", "a", "b", "c", "d", "e",
              "g", "h", "i", "l", "m", "n", "o", "p", "r", "s", "t",
              "I", "^", "C">>

\* ord(c), up to an order-preserving renumbering
CharCode(c) == CHOOSE k \in 1..Len(Alphabet) : Alphabet[k] = c

\* str.lower(), one character: the characters it becomes
lower(c) ==
    IF c = "B" THEN <<"b">>
    ELSE IF c = "N" THEN <<"n">>
    ELSE IF c = "I" THEN <<"i", "^">>
    ELSE <<c>>

\* the regular expression class \w
IsWord(c) == c \notin {" ", "!", ".", "^"}

\* the regular expression class \s, and str.split()'s separators
IsSpace(c) == c = " "

\* the values that are not text: None and the float 1.5
NoneValue == <<"None">>
FloatValue == <<"1.5">>

\* str(query)
str(q) ==
    IF q = NoneValue THEN <<"N", "o", "n", "e">>
    ELSE IF q = FloatValue THEN <<"1", ".", "5">>
    ELSE q

\* str.lower()
RECURSIVE str_lower(_)
str_lower(s) == IF s = <<>> THEN <<>> ELSE lower(Head(s)) \o str_lower(Tail(s))

\* re.sub(r'[^\w\s]', '', s): the separator is deleted
re_sub_delete(s) == SelectSeq(s, LAMBDA c : IsWord(c) \/ IsSpace(c))

\* re.sub(r'[^\w\s]', ' ', s)
re_sub(s) == [k \in 1..Len(s) |-> IF IsWord(s[k]) \/ IsSpace(s[k]) THEN s[k] ELSE " "]

\* str.split(): the maximal runs of non-whitespace characters, in order
RECURSIVE split_from(_, _, _, _)
split_from(s, k, cur, acc) ==
    IF k > Len(s)
    THEN IF cur = <<>> THEN acc ELSE Append(acc, cur)
    ELSE IF IsSpace(s[k])
         THEN split_from(s, k + 1, <<>>, IF cur = <<>> THEN acc ELSE Append(acc, cur))
         ELSE split_from(s, k + 1, Append(cur, s[k]), acc)

split(s) == split_from(s, 1, <<>>, <<>>)

\* [w for w in words if w not in {s.lower() for s in stop_words}]
remove_stop_words_ignore_case(words, sw) ==
    SelectSeq(words, LAMBDA w : w \notin {str_lower(t) : t \in sw})

\* [w for w in words if w not in stop_words]
remove_stop_words(words, sw) == SelectSeq(words, LAMBDA w : w \notin sw)

\* the stop words are removed before the text is lowercased
clean_query_stop_first(q, sw) ==
    LET kept == split(re_sub(str(q)))
        found == IF sw # {} THEN remove_stop_words(kept, sw) ELSE kept
    IN  [k \in 1..Len(found) |-> str_lower(found[k])]

clean_query(q, sw) ==
    LET cleaned == re_sub(str_lower(str(q)))
        words == split(cleaned)
    IN  IF sw # {} THEN remove_stop_words(words, sw) ELSE words

\* ''.join(words): the separator is lost
RECURSIVE join_unspaced(_)
join_unspaced(words) ==
    IF words = <<>> THEN <<>> ELSE Head(words) \o join_unspaced(Tail(words))

\* ' '.join(words)
RECURSIVE join(_)
join(words) ==
    IF words = <<>> THEN <<>>
    ELSE IF Len(words) = 1 THEN words[1]
    ELSE words[1] \o <<" ">> \o join(Tail(words))

\* words[start:stop] for start >= 0, with Python's treatment of a negative
\* or too large stop
slice(words, start, stop) ==
    LET len == Len(words)
        stop1 == IF stop < 0 THEN stop + len ELSE stop
        stop2 == IF stop1 < 0 THEN 0 ELSE IF stop1 > len THEN len ELSE stop1
        start1 == IF start > len THEN len ELSE start
    IN  IF start1 < stop2 THEN SubSeq(words, start1 + 1, stop2) ELSE <<>>

\* range(len(words) - n): the last window is lost
window_count_short(words, size) ==
    IF Len(words) - size > 0 THEN Len(words) - size ELSE 0

\* range(len(words) - n + 1)
window_count(words, size) ==
    IF Len(words) - size + 1 > 0 THEN Len(words) - size + 1 ELSE 0

\* the windows are taken over all tokens and those holding a stop word are
\* dropped afterwards
extract_ngrams_filter_after(q, size, sw) ==
    LET words == clean_query(q, {})
        all == IF Len(words) < size THEN <<>>
               ELSE [j \in 1..window_count(words, size) |-> slice(words, j - 1, j - 1 + size)]
    IN  [k \in 1..Len(SelectSeq(all, LAMBDA w : \A t \in Range(w) : t \notin sw)) |->
            join(SelectSeq(all, LAMBDA w : \A t \in Range(w) : t \notin sw)[k])]

extract_ngrams(q, size, sw) ==
    LET words == clean_query(q, sw)
    IN  IF Len(words) < size
        THEN <<>>
        ELSE [j \in 1..window_count(words, size) |->
                 join(slice(words, j - 1, j - 1 + size))]

(***************************************************************************)
(* Inputs.                                                                 *)
(***************************************************************************)
RECURSIVE SeqsUpTo(_, _)
SeqsUpTo(S, len) ==
    IF len = 0 THEN {<<>>}
    ELSE LET shorter == SeqsUpTo(S, len - 1)
         IN  shorter \cup {Append(s, x) : s \in {t \in shorter : Len(t) = len - 1}, x \in S}

Queries == SeqsUpTo(Chars, MaxQueryLen)

StopWordSets == {{}, {<<"a">>}, {<<"b">>}, {<<"B">>}}

Sizes == (-1)..MaxN

(***************************************************************************)
(* One call of extract_ngrams.                                             *)
(***************************************************************************)
NoError == [type |-> "none", columns |-> <<>>]

\* no call of clean_query, identify_money_wasters, generate_negative_keywords
CleanIdle == clean_words = <<>> /\ reclean_words = <<>> /\ cpc = "idle"

WasteIdle ==
    /\ waste_df = <<>>
    /\ cost_threshold_percentile = 75 /\ cvr_threshold_percentile = 25
    /\ cost_threshold = <<0, 0>> /\ cvr_threshold = <<0, 0>>
    /\ money_wasters = <<>> /\ scored = FALSE /\ wpc = "idle"

KeywordsIdle ==
    /\ kw_money_wasters = <<>>
    /\ min_waste_score = <<1, 2>> /\ max_results = 100
    /\ negative_keywords = <<>> /\ kpc = "idle"

\* no concurrent calls
ParallelIdle ==
    /\ wk_pc = <<>> /\ wk_i = <<>> /\ wk_ngram_data = <<>>
    /\ wk_result = <<>> /\ wk_error = <<>>

\* no save_analysis or load_analysis
StoreIdle ==
    /\ results = <<>> /\ saved_file = <<>> /\ loaded = <<>> /\ store_pc = "idle"

\* no validate_and_map_columns
ValidatorIdle ==
    /\ upload_columns = <<>> /\ upload_rows = <<>> /\ mapped = <<>>
    /\ validated = <<>> /\ val_error = NoError /\ val_pc = "idle"

\* no run_analysis
AppIdle ==
    /\ app_df = <<>> /\ settings = <<>> /\ stop_words_tuple = <<>>
    /\ run_results = <<>> /\ run_k = 0 /\ analyzed_data = <<>> /\ cache = {}
    /\ computed = <<>> /\ shown_errors = <<>> /\ run_count = 0 /\ app_pc = "idle"

ExtrasIdle == ParallelIdle /\ StoreIdle /\ ValidatorIdle /\ AppIdle

InitExtract ==
    /\ query \in Queries
    /\ n \in Sizes
    /\ stop_words \in StopWordSets
    /\ ngrams = <<>>
    /\ xpc = "call"
    /\ df = <<>>
    /\ columns = {}
    /\ min_occurrences = 1
    /\ pc = "idle" /\ i = 0 /\ ngram_data = <<>> /\ result = <<>> /\ error = NoError
    /\ vpc = "idle" /\ df_copy = <<>> /\ df_exploded = <<>> /\ vresult = <<>>
    /\ verror = NoError
    /\ CleanIdle /\ WasteIdle /\ KeywordsIdle /\ ExtrasIdle

CallExtract ==
    /\ xpc = "call"
    /\ ngrams' = extract_ngrams(query, n, stop_words)
    /\ xpc' = "returned"
    /\ UNCHANGED <<query, input_vars, detector_vars, std_vars, vec_vars>>

(***************************************************************************)
(* analyze_ngrams: the row-wise aggregation.                               *)
(***************************************************************************)
required_cols == <<"query", "clicks", "cost", "conversions">>

\* the check stops at the first missing column
missing_cols_first(cols) ==
    LET missing == SelectSeq(required_cols, LAMBDA col : col \notin cols)
    IN  IF missing = <<>> THEN <<>> ELSE <<Head(missing)>>

\* [col for col in required_cols if col not in df.columns]
missing_cols(cols) == SelectSeq(required_cols, LAMBDA col : col \notin cols)

\* the defaultdict's default value, under its key
new_entry(ngram) ==
    [ngram |-> ngram, clicks |-> 0, cost |-> 0, conversions |-> 0,
     impressions |-> 0, query_count |-> 0, queries |-> <<>>]

\* row['clicks'] is read whether or not the impressions column is there
row_get_clicks_always(row, cols) == row.clicks

\* row.get('impressions', row['clicks'])
row_get_impressions(row, cols) ==
    IF "impressions" \in cols THEN row.impressions ELSE row.clicks

\* cost is assigned where it should be added
add_metrics_cost_assigned(e, row, cols) ==
    [e EXCEPT !.clicks = @ + row.clicks,
              !.cost = row.cost,
              !.conversions = @ + row.conversions,
              !.impressions = @ + row_get_impressions(row, cols)]

\* the four += of a row's metrics
add_metrics(e, row, cols) ==
    [e EXCEPT !.clicks = @ + row.clicks,
              !.cost = @ + row.cost,
              !.conversions = @ + row.conversions,
              !.impressions = @ + row_get_impressions(row, cols)]

\* a query is counted once however often it holds the n-gram
add_occurrence_distinct(e, row) ==
    IF e.queries # <<>> /\ e.queries[Len(e.queries)] = row.query
    THEN e
    ELSE [e EXCEPT !.query_count = @ + 1,
                   !.queries = Append(@, row.query)]

\* query_count += 1 and queries.append(row['query'])
add_occurrence(e, row) ==
    [e EXCEPT !.query_count = @ + 1,
              !.queries = Append(@, row.query)]

\* every occurrence opens an entry of its own
accumulate_always_new(data, ngram, row, cols) ==
    Append(data, add_occurrence(add_metrics(new_entry(ngram), row, cols), row))

\* the body of the inner loop, for one n-gram of one row
accumulate(data, ngram, row, cols) ==
    IF \E k \in 1..Len(data) : data[k].ngram = ngram
    THEN [k \in 1..Len(data) |->
             IF data[k].ngram = ngram
             THEN add_occurrence(add_metrics(data[k], row, cols), row)
             ELSE data[k]]
    ELSE Append(data, add_occurrence(add_metrics(new_entry(ngram), row, cols), row))

\* for ngram in ngrams: ...
RECURSIVE accumulate_all(_, _, _, _)
accumulate_all(data, grams, row, cols) ==
    IF grams = <<>> THEN data
    ELSE accumulate_all(accumulate(data, Head(grams), row, cols), Tail(grams), row, cols)

RECURSIVE GCD(_, _)
GCD(a, b) == IF b = 0 THEN a ELSE GCD(b, a % b)

\* the exact value of num / den; a zero denominator gives the undefined
\* value <<num, 0>> (numpy's inf or nan)
Frac(num, den) ==
    IF den = 0 THEN <<num, 0>>
    ELSE LET g == GCD(num, den) IN <<num \div g, den \div g>>

Zero == Frac(0, 1)

\* the guard >= 0 lets a zero denominator through
metric_defined_nonneg(den) == den >= 0

\* the guard of a derived metric: if denominator > 0
metric_defined(den) == den > 0

\* (num / den * scale) if den > 0 else 0
metric(num, den, scale) ==
    IF metric_defined(den) THEN Frac(num * scale, den) ELSE Zero

\* the filter <= drops the n-grams that occur exactly min_occurrences times
retained_strict(count, min_occ) == ~(count <= min_occ)

\* if data['query_count'] < min_occurrences: continue
retained(count, min_occ) == ~(count < min_occ)

result_row(e) ==
    [ngram |-> e.ngram,
     query_count |-> e.query_count,
     total_clicks |-> e.clicks,
     total_cost |-> e.cost,
     total_conversions |-> e.conversions,
     total_impressions |-> e.impressions,
     ctr |-> metric(e.clicks, e.impressions, 100),
     cvr |-> metric(e.conversions, e.clicks, 100),
     cpa |-> metric(e.cost, e.conversions, 1),
     queries |-> e.queries]

\* the second loop: filter by min_occurrences and derive the metrics
RECURSIVE build_result(_, _)
build_result(data, min_occ) ==
    IF data = <<>> THEN <<>>
    ELSE IF retained(Head(data).query_count, min_occ)
         THEN <<result_row(Head(data))>> \o build_result(Tail(data), min_occ)
         ELSE build_result(Tail(data), min_occ)

\* lines 44-58: the column check and the empty accumulator
Validate ==
    /\ pc = "start"
    /\ IF missing_cols(columns) # <<>>
       THEN /\ pc' = "raised"
            /\ error' = [type |-> "ValueError", columns |-> missing_cols(columns)]
            /\ UNCHANGED <<i, ngram_data>>
       ELSE /\ pc' = "loop"
            /\ i' = 1
            /\ ngram_data' = <<>>
            /\ UNCHANGED error
    /\ UNCHANGED <<result, input_vars, detector_vars, extract_vars, vec_vars>>

\* lines 61-70: one iteration of the loop over the rows
IterRow ==
    /\ pc = "loop"
    /\ i <= Len(df)
    /\ ngram_data' = accumulate_all(ngram_data,
                                    extract_ngrams(df[i].query, n, stop_words),
                                    df[i], columns)
    /\ i' = i + 1
    /\ UNCHANGED <<pc, result, error, input_vars, detector_vars, extract_vars, vec_vars>>

\* lines 72-100: the result table
BuildResult ==
    /\ pc = "loop"
    /\ i > Len(df)
    /\ result' = build_result(ngram_data, min_occurrences)
    /\ pc' = "done"
    /\ UNCHANGED <<i, ngram_data, error, input_vars, detector_vars, extract_vars, vec_vars>>

(***************************************************************************)
(* analyze_ngrams_vectorized: the grouped aggregation.                     *)
(***************************************************************************)
\* the missing value explode() gives a row whose list is empty
NaN == <<"NaN">>

KeyError(cols) == [type |-> "KeyError", columns |-> cols]

\* df_copy['ngrams'] = df_copy['query'].apply(...)
with_ngrams(row, size, sw) ==
    [query |-> row.query, clicks |-> row.clicks, cost |-> row.cost,
     conversions |-> row.conversions, impressions |-> row.impressions,
     ngrams |-> extract_ngrams(row.query, size, sw)]

\* one row of df_copy exploded on its ngrams column
explode_row(row) ==
    IF row.ngrams = <<>>
    THEN <<[row EXCEPT !.ngrams = NaN]>>
    ELSE [k \in 1..Len(row.ngrams) |-> [row EXCEPT !.ngrams = row.ngrams[k]]]

\* df_copy.explode('ngrams')
RECURSIVE explode(_)
explode(rows) ==
    IF rows = <<>> THEN <<>> ELSE explode_row(Head(rows)) \o explode(Tail(rows))

\* df_exploded[df_exploded['ngrams'].notna()]
notna(rows) == SelectSeq(rows, LAMBDA r : r.ngrams # NaN)

\* df_exploded['impressions'] = df_exploded['clicks']
fill_impressions(rows) ==
    [k \in 1..Len(rows) |-> [rows[k] EXCEPT !.impressions = rows[k].clicks]]

\* Python's order of two strings
RECURSIVE str_le(_, _)
str_le(s, t) ==
    IF s = <<>> THEN TRUE
    ELSE IF t = <<>> THEN FALSE
    ELSE IF CharCode(Head(s)) < CharCode(Head(t)) THEN TRUE
    ELSE IF CharCode(Head(s)) > CharCode(Head(t)) THEN FALSE
    ELSE str_le(Tail(s), Tail(t))

\* the group keys in groupby's order (sort=True)
RECURSIVE sorted_keys(_)
sorted_keys(keys) ==
    IF keys = {} THEN <<>>
    ELSE LET least == CHOOSE x \in keys : \A y \in keys : str_le(x, y)
         IN  <<least>> \o sorted_keys(keys \ {least})

\* the aggregation 'sum' of one column over a group's rows
RECURSIVE agg_sum(_, _)
agg_sum(rows, col) ==
    IF rows = <<>> THEN 0 ELSE Head(rows)[col] + agg_sum(Tail(rows), col)

\* the aggregations of one group
agg_group(key, rows) ==
    LET members == SelectSeq(rows, LAMBDA r : r.ngrams = key)
    IN  [ngram |-> key,
         total_clicks |-> agg_sum(members, "clicks"),
         total_cost |-> agg_sum(members, "cost"),
         total_conversions |-> agg_sum(members, "conversions"),
         total_impressions |-> agg_sum(members, "impressions"),
         query_count |-> Len(members),
         queries |-> [k \in 1..Len(members) |-> members[k].query]]

\* df_exploded.groupby('ngrams').agg({...}).reset_index()
groupby_agg(rows) ==
    LET keys == sorted_keys({rows[k].ngrams : k \in 1..Len(rows)})
    IN  [k \in 1..Len(keys) |-> agg_group(keys[k], rows)]

\* the columns the aggregation reads that the exploded table lacks
agg_missing(cols) ==
    SelectSeq(<<"clicks", "cost", "conversions", "impressions", "query">>,
              LAMBDA col : col \notin cols)

\* the vectorized filter with > for >=
min_occurrences_filter_strict(rows, min_occ) ==
    SelectSeq(rows, LAMBDA r : r.query_count > min_occ)

\* result[result['query_count'] >= min_occurrences]
min_occurrences_filter(rows, min_occ) ==
    SelectSeq(rows, LAMBDA r : r.query_count >= min_occ)

\* np.where(den > 0, num / den * scale, 0)
np_where(num, den, scale) == IF den > 0 THEN Frac(num * scale, den) ELSE Zero

derive_metrics(r) ==
    [ngram |-> r.ngram,
     query_count |-> r.query_count,
     total_clicks |-> r.total_clicks,
     total_cost |-> r.total_cost,
     total_conversions |-> r.total_conversions,
     total_impressions |-> r.total_impressions,
     ctr |-> np_where(r.total_clicks, r.total_impressions, 100),
     cvr |-> np_where(r.total_conversions, r.total_clicks, 100),
     cpa |-> np_where(r.total_cost, r.total_conversions, 1),
     queries |-> r.queries]

\* df_copy = df: the ngrams column is added to the input table itself
input_columns_aliased(cols) == cols \cup {"ngrams"}

\* df_copy = df.copy(): the ngrams column is added to the copy, the input
\* table keeps its columns
input_columns(cols) == cols

\* lines 126-130: the copy and its ngrams column
VApply ==
    /\ vpc = "start"
    /\ pc \in {"done", "raised"}
    /\ IF "query" \notin columns
       THEN /\ vpc' = "raised"
            /\ verror' = KeyError(<<"query">>)
            /\ UNCHANGED <<df_copy, columns>>
       ELSE /\ vpc' = "explode"
            /\ df_copy' = [k \in 1..Len(df) |-> with_ngrams(df[k], n, stop_words)]
            /\ columns' = input_columns(columns)
            /\ UNCHANGED verror
    /\ UNCHANGED <<df_exploded, vresult, n, stop_words, df, min_occurrences,
                   detector_vars, extract_vars, std_vars>>

\* lines 132-138: one row per n-gram, and the impressions column
VExplode ==
    /\ vpc = "explode"
    /\ IF "impressions" \in columns
       THEN /\ df_exploded' = notna(explode(df_copy))
            /\ vpc' = "group"
            /\ UNCHANGED verror
       ELSE IF "clicks" \notin columns
       THEN /\ vpc' = "raised"
            /\ verror' = KeyError(<<"clicks">>)
            /\ df_exploded' = notna(explode(df_copy))
       ELSE /\ df_exploded' = fill_impressions(notna(explode(df_copy)))
            /\ vpc' = "group"
            /\ UNCHANGED verror
    /\ UNCHANGED <<df_copy, vresult, input_vars, detector_vars, extract_vars, std_vars>>

\* lines 140-151: group by n-gram and aggregate
VGroup ==
    /\ vpc = "group"
    /\ IF agg_missing(columns \cup {"impressions"}) # <<>>
       THEN /\ vpc' = "raised"
            /\ verror' = KeyError(agg_missing(columns \cup {"impressions"}))
            /\ UNCHANGED vresult
       ELSE /\ vresult' = groupby_agg(df_exploded)
            /\ vpc' = "derive"
            /\ UNCHANGED verror
    /\ UNCHANGED <<df_copy, df_exploded, input_vars, detector_vars, extract_vars, std_vars>>

\* lines 153-175: the min_occurrences filter and the derived metrics
VDerive ==
    /\ vpc = "derive"
    /\ vresult' = LET kept == min_occurrences_filter(vresult, min_occurrences)
                  IN  [k \in 1..Len(kept) |-> derive_metrics(kept[k])]
    /\ vpc' = "done"
    /\ UNCHANGED <<df_copy, df_exploded, verror, input_vars, detector_vars, extract_vars, std_vars>>

(***************************************************************************)
(* Input tables.                                                           *)
(***************************************************************************)
AllColumns == {"query", "clicks", "cost", "conversions", "impressions"}

\* the queries 'a a a', 'B a' and '!'
QueryPool == {<<"a", " ", "a", " ", "a">>, <<"B", " ", "a">>, <<"!">>}

\* clicks, cost, conversions, impressions of a row
MetricPool == {<<0, 0, 0, 0>>, <<2, 3, 1, 5>>, <<2, 3, 0, 0>>, <<0, 1, 1, 5>>}

\* a row of a table that has the columns cols; the field of a column the
\* table lacks is never read, and holds a fixed value
Row(q, m, cols) ==
    [query |-> IF "query" \in cols THEN q ELSE <<>>,
     clicks |-> IF "clicks" \in cols THEN m[1] ELSE 0,
     cost |-> IF "cost" \in cols THEN m[2] ELSE 0,
     conversions |-> IF "conversions" \in cols THEN m[3] ELSE 0,
     impressions |-> IF "impressions" \in cols THEN m[4] ELSE 0]

Rows(cols) == {Row(q, m, cols) : q \in QueryPool, m \in MetricPool}

AnalysisStopWordSets == {{}, {<<"a">>}}

\* 'cheap remortgage', 'best remortgage deals', 'remortgage rates'
ScenarioTable ==
    <<[query |-> <<"c","h","e","a","p"," ","r","e","m","o","r","t","g","a","g","e">>,
       clicks |-> 100, cost |-> 150, conversions |-> 10, impressions |-> 1000],
      [query |-> <<"b","e","s","t"," ","r","e","m","o","r","t","g","a","g","e"," ",
                   "d","e","a","l","s">>,
       clicks |-> 200, cost |-> 300, conversions |-> 20, impressions |-> 2000],
      [query |-> <<"r","e","m","o","r","t","g","a","g","e"," ","r","a","t","e","s">>,
       clicks |-> 150, cost |-> 225, conversions |-> 15, impressions |-> 1500]>>

InitCalls ==
    /\ query = <<>> /\ ngrams = <<>> /\ xpc = "idle"
    /\ pc = "start" /\ i = 0 /\ ngram_data = <<>> /\ result = <<>> /\ error = NoError
    /\ vpc = "start" /\ df_copy = <<>> /\ df_exploded = <<>> /\ vresult = <<>>
    /\ verror = NoError
    /\ CleanIdle /\ WasteIdle /\ KeywordsIdle /\ ExtrasIdle

\* tables that have the required columns, with or without impressions
Init ==
    /\ \/ /\ columns \in {AllColumns, AllColumns \ {"impressions"}}
          /\ df \in SeqsUpTo(Rows(columns), MaxRows)
          /\ n \in 0..MaxN
          /\ min_occurrences \in 1..MaxMinOccurrences
          /\ stop_words \in AnalysisStopWordSets
       \/ /\ columns = AllColumns
          /\ df = ScenarioTable
          /\ n = 1
          /\ min_occurrences = 1
          /\ stop_words = {}
    /\ InitCalls

\* tables with any set of columns
InitSchema ==
    /\ columns \in SUBSET AllColumns
    /\ df \in SeqsUpTo(Rows(columns), MaxSchemaRows)
    /\ n \in 1..MaxN
    /\ min_occurrences \in 1..MaxMinOccurrences
    /\ stop_words \in AnalysisStopWordSets
    /\ InitCalls

Next ==
    \/ Validate
    \/ IterRow
    \/ BuildResult
    \/ VApply
    \/ VExplode
    \/ VGroup
    \/ VDerive

Spec == Init /\ [][Next]_vars

SpecSchema == InitSchema /\ [][Next]_vars

NextExtract == CallExtract

SpecExtract == InitExtract /\ [][NextExtract]_vars

(***************************************************************************)
(* clean_query, and clean_query applied again to its joined output.        *)
(***************************************************************************)
NonText == {NoneValue, FloatValue}

CleanQueries == SeqsUpTo(CleanChars, MaxCleanLen) \cup NonText

AnalysisIdle ==
    /\ n = 1 /\ df = <<>> /\ columns = {} /\ min_occurrences = 1
    /\ ngrams = <<>> /\ xpc = "idle"
    /\ pc = "idle" /\ i = 0 /\ ngram_data = <<>> /\ result = <<>> /\ error = NoError
    /\ vpc = "idle" /\ df_copy = <<>> /\ df_exploded = <<>> /\ vresult = <<>>
    /\ verror = NoError

\* also a stop word that is an uppercase letter without a lowercase form
CleanStopWordSets == StopWordSets \cup {{<<"C">>}}

InitClean ==
    /\ query \in CleanQueries
    /\ stop_words \in CleanStopWordSets
    /\ clean_words = <<>> /\ reclean_words = <<>> /\ cpc = "call"
    /\ AnalysisIdle /\ WasteIdle /\ KeywordsIdle /\ ExtrasIdle

CallClean ==
    /\ cpc = "call"
    /\ clean_words' = clean_query(query, stop_words)
    /\ cpc' = "cleaned"
    /\ UNCHANGED <<reclean_words, input_vars, extract_vars, std_vars, vec_vars, extra_vars,
                   waste_vars, keyword_vars>>

ReClean ==
    /\ cpc = "cleaned"
    /\ reclean_words' = clean_query(join(clean_words), stop_words)
    /\ cpc' = "recleaned"
    /\ UNCHANGED <<clean_words, input_vars, extract_vars, std_vars, vec_vars, extra_vars,
                   waste_vars, keyword_vars>>

NextClean == CallClean \/ ReClean

SpecClean == InitClean /\ [][NextClean]_vars

(***************************************************************************)
(* identify_money_wasters.  A row of the aggregates table is a record of   *)
(* its ngram, total_cost and cvr (in percent); a threshold and a waste     *)
(* score are fractions.                                                    *)
(***************************************************************************)
\* a <= b and a < b for fractions; a comparison with an undefined value
\* (NaN) is false
FracLe(a, b) == a[2] # 0 /\ b[2] # 0 /\ a[1] * b[2] <= b[1] * a[2]
FracLt(a, b) == a[2] # 0 /\ b[2] # 0 /\ a[1] * b[2] < b[1] * a[2]

\* a threshold that was not computed
Unset == <<0, 0>>

\* df[field]
column(rows, field) == [k \in 1..Len(rows) |-> rows[k][field]]

\* the values in ascending order
RECURSIVE sorted(_)
sorted(vals) ==
    IF vals = <<>> THEN <<>>
    ELSE LET k == CHOOSE k \in 1..Len(vals) : \A j \in 1..Len(vals) : vals[k] <= vals[j]
         IN  <<vals[k]>> \o sorted(SubSeq(vals, 1, k - 1) \o SubSeq(vals, k + 1, Len(vals)))

\* Series.quantile(p / 100): linear interpolation between the two values
\* around rank p / 100 * (N - 1)
quantile(vals, p) ==
    LET s == sorted(vals)
        pos == p * (Len(vals) - 1)
        lo == pos \div 100
        rem == pos % 100
        hi == IF rem = 0 THEN lo ELSE lo + 1
    IN  Frac(s[lo + 1] * (100 - rem) + s[hi + 1] * rem, 100)

\* df['total_cost'] <= cost_threshold: the cheap rows are kept
cost_mask_below(row, ct) == FracLe(<<row.total_cost, 1>>, ct)

\* df['total_cost'] >= cost_threshold
cost_mask(row, ct) == FracLe(ct, <<row.total_cost, 1>>)

\* df['cvr'] < cvr_threshold
cvr_mask_strict(row, vt) == FracLt(<<row.cvr, 1>>, vt)

\* df['cvr'] <= cvr_threshold
cvr_mask(row, vt) == FracLe(<<row.cvr, 1>>, vt)

\* df[(df['total_cost'] >= cost_threshold) & (df['cvr'] <= cvr_threshold)]
filter_wasters(rows, ct, vt) ==
    SelectSeq(rows, LAMBDA row : cost_mask(row, ct) /\ cvr_mask(row, vt))

\* the filter of identify_money_wasters at percentiles p and q
wasters_at(rows, p, q) ==
    filter_wasters(rows, quantile(column(rows, "total_cost"), p),
                   quantile(column(rows, "cvr"), q))

\* df.empty
empty(rows) == rows = <<>>

\* the early return of an empty selection is not there
no_wasters_never(rows) == FALSE

\* if money_wasters.empty: return money_wasters
no_wasters(rows) == empty(rows)

RECURSIVE max_of(_)
max_of(vals) ==
    IF Len(vals) = 1 THEN vals[1] ELSE Max(vals[1], max_of(Tail(vals)))

\* df['total_cost'].max(): the maximum over the whole input
max_cost_of_input(rows) == max_of(column(waste_df, "total_cost"))

\* money_wasters['total_cost'].max()
max_cost(rows) == max_of(column(rows, "total_cost"))

\* (total_cost / max_cost) * (1 - cvr / 100); 0 / 0 is NaN
waste_score(row, mc) == Frac(row.total_cost * (100 - row.cvr), mc * 100)

with_waste_score(row, mc) ==
    [ngram |-> row.ngram, total_cost |-> row.total_cost, cvr |-> row.cvr,
     waste_score |-> waste_score(row, mc)]

\* ascending=True: a row may stand before another of a greater score
may_precede_ascending(a, b) ==
    ~FracLt(b.waste_score, a.waste_score)

\* ascending=False: a row may stand before another unless its score is less
may_precede(a, b) ==
    ~FracLt(a.waste_score, b.waste_score)

\* the orders of the positions 1..len
Orders(len) ==
    {p \in [1..len -> 1..len] : \A j, k \in 1..len : j # k => p[j] # p[k]}

\* sort_values('waste_score', ascending=False) with the default
\* kind='quicksort', which is not stable: every order of the rows in which
\* no score is followed by a greater one; the rows whose score is NaN come
\* last (na_position='last'), in the order they had
sort_values(rows) ==
    {[k \in 1..Len(rows) |-> rows[p[k]]] : p \in
        {p \in Orders(Len(rows)) :
            \A j, k \in 1..Len(rows) : j < k =>
                LET a == rows[p[j]]
                    b == rows[p[k]]
                IN  IF b.waste_score[2] = 0
                    THEN a.waste_score[2] = 0 => p[j] < p[k]
                    ELSE a.waste_score[2] # 0 /\ may_precede(a, b)}}

\* the aggregates tables: the row at position k has the k-th n-gram
NgramName(k) == [j \in 1..k |-> "a"]

CostPool == {0, 1, 3}

CvrPool == {0, 50, 150}

PercentilePool == {0, 25, 50, 75, 100}

WasteTables ==
    UNION {{[k \in 1..len |-> [ngram |-> NgramName(k), total_cost |-> c[k], cvr |-> v[k]]] :
               c \in [1..len -> CostPool], v \in [1..len -> CvrPool]} :
           len \in 0..MaxWasteRows}

InitWaste ==
    /\ waste_df \in WasteTables
    /\ cost_threshold_percentile \in PercentilePool
    /\ cvr_threshold_percentile \in PercentilePool
    /\ cost_threshold = Unset /\ cvr_threshold = Unset
    /\ money_wasters = <<>> /\ scored = FALSE /\ wpc = "start"
    /\ query = <<>> /\ stop_words = {}
    /\ AnalysisIdle /\ CleanIdle /\ KeywordsIdle /\ ExtrasIdle

\* if df.empty: return df; else the two thresholds
WStart ==
    /\ wpc = "start"
    /\ IF empty(waste_df)
       THEN /\ money_wasters' = waste_df
            /\ wpc' = "done"
            /\ UNCHANGED <<cost_threshold, cvr_threshold>>
       ELSE /\ cost_threshold' = quantile(column(waste_df, "total_cost"),
                                          cost_threshold_percentile)
            /\ cvr_threshold' = quantile(column(waste_df, "cvr"),
                                         cvr_threshold_percentile)
            /\ wpc' = "filter"
            /\ UNCHANGED money_wasters
    /\ UNCHANGED <<waste_df, cost_threshold_percentile, cvr_threshold_percentile,
                   scored, query, input_vars, extract_vars, std_vars, vec_vars, extra_vars,
                   clean_vars, keyword_vars>>

\* the filter, and the early return of an empty selection
WFilter ==
    /\ wpc = "filter"
    /\ money_wasters' = filter_wasters(waste_df, cost_threshold, cvr_threshold)
    /\ wpc' = IF no_wasters(money_wasters') THEN "done" ELSE "score"
    /\ UNCHANGED <<waste_df, cost_threshold_percentile, cvr_threshold_percentile,
                   cost_threshold, cvr_threshold, scored,
                   query, input_vars, extract_vars, std_vars, vec_vars, extra_vars,
                   clean_vars, keyword_vars>>

\* the waste_score column
WScore ==
    /\ wpc = "score"
    /\ money_wasters' =
          [k \in 1..Len(money_wasters) |->
              with_waste_score(money_wasters[k], max_cost(money_wasters))]
    /\ scored' = TRUE
    /\ wpc' = "sort"
    /\ UNCHANGED <<waste_df, cost_threshold_percentile, cvr_threshold_percentile,
                   cost_threshold, cvr_threshold,
                   query, input_vars, extract_vars, std_vars, vec_vars, extra_vars,
                   clean_vars, keyword_vars>>

\* the sort and the return
WSort ==
    /\ wpc = "sort"
    /\ money_wasters' \in sort_values(money_wasters)
    /\ wpc' = "done"
    /\ UNCHANGED <<waste_df, cost_threshold_percentile, cvr_threshold_percentile,
                   cost_threshold, cvr_threshold, scored,
                   query, input_vars, extract_vars, std_vars, vec_vars, extra_vars,
                   clean_vars, keyword_vars>>

NextWaste == WStart \/ WFilter \/ WScore \/ WSort

SpecWaste == InitWaste /\ [][NextWaste]_vars

(***************************************************************************)
(* generate_negative_keywords.  A row of its table is a record of its      *)
(* ngram and waste_score.                                                  *)
(***************************************************************************)
\* sorted_wasters['waste_score'] > min_waste_score
qualifies_strict(row, min_score) == FracLt(min_score, row.waste_score)

\* sorted_wasters['waste_score'] >= min_waste_score
qualifies(row, min_score) == FracLe(min_score, row.waste_score)

\* Series.head(k): the first k values, all but the last -k for a negative k
head(vals, k) ==
    LET stop == IF k < 0 THEN Max(Len(vals) + k, 0)
                ELSE IF k > Len(vals) THEN Len(vals) ELSE k
    IN  SubSeq(vals, 1, stop)

\* the list returned for one outcome of the sort
candidates(sorted_wasters, min_score, k) ==
    head(column(SelectSeq(sorted_wasters, LAMBDA row : qualifies(row, min_score)),
                "ngram"), k)

\* scores: NaN, a negative score, 0, 1/2 and 1
ScorePool == {<<0, 0>>, <<-1, 2>>, <<0, 1>>, <<1, 2>>, <<1, 1>>}

MinScorePool == {<<0, 1>>, <<1, 2>>, <<1, 1>>}

KeywordTables ==
    UNION {{[k \in 1..len |-> [ngram |-> NgramName(k), waste_score |-> sc[k]]] :
               sc \in [1..len -> ScorePool]} :
           len \in 0..MaxKeywordRows}

InitKeywords ==
    /\ kw_money_wasters \in KeywordTables
    /\ min_waste_score \in MinScorePool
    /\ max_results \in 0..MaxResults
    /\ negative_keywords = <<>> /\ kpc = "call"
    /\ query = <<>> /\ stop_words = {}
    /\ AnalysisIdle /\ CleanIdle /\ WasteIdle /\ ExtrasIdle

GenerateKeywords ==
    /\ kpc = "call"
    /\ IF empty(kw_money_wasters)
       THEN negative_keywords' = <<>>
       ELSE \E sorted_wasters \in sort_values(kw_money_wasters) :
                negative_keywords' =
                    candidates(sorted_wasters, min_waste_score, max_results)
    /\ kpc' = "returned"
    /\ UNCHANGED <<kw_money_wasters, min_waste_score, max_results,
                   query, input_vars, extract_vars, std_vars, vec_vars, extra_vars,
                   clean_vars, waste_vars>>

NextKeywords == GenerateKeywords

SpecKeywords == InitKeywords /\ [][NextKeywords]_vars

(***************************************************************************)
(* Stop words: one call of extract_ngrams and one run of analyze_ngrams    *)
(* over queries that hold stop words.                                      *)
(***************************************************************************)
\* 'the best remortgage deals'
StopWordScenario ==
    <<"t","h","e"," ","b","e","s","t"," ","r","e","m","o","r","t","g","a","g","e"," ",
      "d","e","a","l","s">>

StopQueryPool ==
    {<<"_", " ", "a", " ", "_">>, <<"a", " ", "B", " ", "a">>, <<"a">>, StopWordScenario}

StopWordPool == {{}, {<<"a">>}, {<<"t","h","e">>, <<"a">>}}

InitStop ==
    /\ columns = AllColumns
    /\ df \in SeqsUpTo({Row(q, <<2, 3, 1, 5>>, AllColumns) : q \in StopQueryPool},
                       MaxStopRows)
    /\ n \in 1..MaxN
    /\ min_occurrences \in 1..MaxMinOccurrences
    /\ stop_words \in StopWordPool
    /\ query \in StopQueryPool
    /\ ngrams = <<>> /\ xpc = "call"
    /\ pc = "start" /\ i = 0 /\ ngram_data = <<>> /\ result = <<>> /\ error = NoError
    /\ vpc = "idle" /\ df_copy = <<>> /\ df_exploded = <<>> /\ vresult = <<>>
    /\ verror = NoError
    /\ CleanIdle /\ WasteIdle /\ KeywordsIdle /\ ExtrasIdle

NextStop == CallExtract \/ Validate \/ IterRow \/ BuildResult

SpecStop == InitStop /\ [][NextStop]_vars

(***************************************************************************)
(* The four table functions, each run on inputs of its own.                *)
(***************************************************************************)
InitFrame ==
    \/ InitSchema
    \/ InitWaste /\ cost_threshold_percentile = 75 /\ cvr_threshold_percentile = 25
    \/ InitKeywords

NextFrame == Next \/ NextWaste \/ NextKeywords

SpecFrame == InitFrame /\ [][NextFrame]_vars

(***************************************************************************)
(* Concurrent calls of analyze_ngrams over one input table: call w         *)
(* computes the w-grams.  A step is the column check, one iteration of     *)
(* the loop over the rows, or the construction of the result.              *)
(***************************************************************************)
Workers == 1..MaxWorkers

\* one accumulator, default of a parameter or global, serves every call
shared_accumulator(w) == 1

\* ngram_data is a local of the call: each call has its own
accumulator(w) == w

ParallelQueryPool == {<<"a", " ", "a", " ", "a">>, <<"B", " ", "a">>}

ParallelMetricPool == {<<2, 3, 1, 5>>, <<0, 1, 1, 5>>}

InitParallel ==
    /\ columns \in {AllColumns, AllColumns \ {"impressions"}, AllColumns \ {"cost"}}
    /\ df \in SeqsUpTo({Row(q, m, columns) : q \in ParallelQueryPool,
                                              m \in ParallelMetricPool},
                       MaxParallelRows)
    /\ min_occurrences \in 1..MaxMinOccurrences
    /\ stop_words = {}
    /\ n = 1
    /\ wk_pc = [w \in Workers |-> "start"]
    /\ wk_i = [w \in Workers |-> 0]
    /\ wk_ngram_data = [w \in Workers |-> <<>>]
    /\ wk_result = [w \in Workers |-> <<>>]
    /\ wk_error = [w \in Workers |-> NoError]
    /\ query = <<>> /\ ngrams = <<>> /\ xpc = "idle"
    /\ pc = "idle" /\ i = 0 /\ ngram_data = <<>> /\ result = <<>> /\ error = NoError
    /\ vpc = "idle" /\ df_copy = <<>> /\ df_exploded = <<>> /\ vresult = <<>>
    /\ verror = NoError
    /\ CleanIdle /\ WasteIdle /\ KeywordsIdle
    /\ StoreIdle /\ ValidatorIdle /\ AppIdle

\* lines 44-58 of call w
PValidate(w) ==
    /\ wk_pc[w] = "start"
    /\ IF missing_cols(columns) # <<>>
       THEN /\ wk_pc' = [wk_pc EXCEPT ![w] = "raised"]
            /\ wk_error' = [wk_error EXCEPT ![w] =
                               [type |-> "ValueError", columns |-> missing_cols(columns)]]
            /\ UNCHANGED <<wk_i, wk_ngram_data>>
       ELSE /\ wk_pc' = [wk_pc EXCEPT ![w] = "loop"]
            /\ wk_i' = [wk_i EXCEPT ![w] = 1]
            /\ wk_ngram_data' = [wk_ngram_data EXCEPT ![accumulator(w)] = <<>>]
            /\ UNCHANGED wk_error
    /\ UNCHANGED <<wk_result, input_vars, tool_vars, store_vars, validator_vars, app_vars>>

\* lines 61-70 of call w: one row
PIterRow(w) ==
    /\ wk_pc[w] = "loop"
    /\ wk_i[w] <= Len(df)
    /\ wk_ngram_data' =
          [wk_ngram_data EXCEPT ![accumulator(w)] =
              accumulate_all(@, extract_ngrams(df[wk_i[w]].query, w, stop_words),
                             df[wk_i[w]], columns)]
    /\ wk_i' = [wk_i EXCEPT ![w] = @ + 1]
    /\ UNCHANGED <<wk_pc, wk_result, wk_error, input_vars, tool_vars, store_vars, validator_vars, app_vars>>

\* lines 72-100 of call w
PBuildResult(w) ==
    /\ wk_pc[w] = "loop"
    /\ wk_i[w] > Len(df)
    /\ wk_result' = [wk_result EXCEPT ![w] =
                        build_result(wk_ngram_data[accumulator(w)], min_occurrences)]
    /\ wk_pc' = [wk_pc EXCEPT ![w] = "done"]
    /\ UNCHANGED <<wk_i, wk_ngram_data, wk_error, input_vars, tool_vars, store_vars, validator_vars, app_vars>>

NextParallel ==
    \E w \in Workers : PValidate(w) \/ PIterRow(w) \/ PBuildResult(w)

SpecParallel == InitParallel /\ [][NextParallel]_vars

(***************************************************************************)
(* save_analysis and load_analysis.  A table is its columns and its rows,  *)
(* a row maps each column to its value, a mapping is the sequence of its   *)
(* items in insertion order.  The file holds JSON text: every key, field   *)
(* name and value is the sequence of characters json.dump writes for it    *)
(* (an escape sequence counts as one character).                           *)
(***************************************************************************)
DecimalDigits == <<"0", "1", "2", "3", "4", "5", "6", "7", "8", "9">>

\* str(n) of an integer n >= 0
RECURSIVE int_str(_)
int_str(k) ==
    IF k < 10 THEN <<DecimalDigits[k + 1]>>
    ELSE Append(int_str(k \div 10), DecimalDigits[(k % 10) + 1])

DigitValue(c) == CHOOSE d \in 0..9 : DecimalDigits[d + 1] = c

\* int(n_str) of a string of decimal digits
RECURSIVE int(_)
int(s) ==
    IF Len(s) = 1 THEN DigitValue(s[1])
    ELSE int(SubSeq(s, 1, Len(s) - 1)) * 10 + DigitValue(s[Len(s)])

\* repr of a float that is a multiple of one half: "2.5", "50.0"
float_repr(f) ==
    LET tenths == (f[1] * 10) \div f[2]
    IN  int_str(tenths \div 10) \o <<".", DecimalDigits[(tenths % 10) + 1]>>

\* float of a JSON number with one decimal
float_parse(s) ==
    LET dot == CHOOSE k \in 1..Len(s) : s[k] = "."
    IN  Frac(int(SubSeq(s, 1, dot - 1)) * 10 + int(SubSeq(s, dot + 1, Len(s))), 10)

\* json.dump, ensure_ascii: a character outside ASCII is written as \uXXXX
json_escape(c) == IF c = "C" THEN "\\u2102" ELSE c

json_unescape(c) == IF c = "\\u2102" THEN "C" ELSE c

json_string(s) == <<"\"">> \o [k \in 1..Len(s) |-> json_escape(s[k])] \o <<"\"">>

\* a field name, which is ASCII, between its quotes
json_key(name) == <<"\"", name, "\"">>

key_name(s) == s[2]

\* the JSON type of the values of a column of the result tables
ColumnKind(col) ==
    IF col = "ngram" THEN "str" ELSE IF col = "query_count" THEN "int" ELSE "float"

\* json.dump of one cell
json_dumps(col, v) ==
    IF ColumnKind(col) = "str" THEN json_string(v)
    ELSE IF ColumnKind(col) = "int" THEN int_str(v)
    ELSE float_repr(v)

\* json.load of one value: the text decides the type
json_loads(s) ==
    IF s[1] = "\"" THEN [k \in 1..(Len(s) - 2) |-> json_unescape(s[k + 1])]
    ELSE IF "." \in Range(s) THEN float_parse(s)
    ELSE int(s)

\* df.drop(columns=[col], errors='ignore'): a new table
drop(t, col) ==
    [columns |-> SelectSeq(t.columns, LAMBDA c : c # col),
     rows |-> [k \in 1..Len(t.rows) |->
                  [c \in (DOMAIN t.rows[k]) \ {col} |-> t.rows[k][c]]]]

\* df.drop(columns=['queries'], inplace=True): the caller's table changes
table_dropped_in_place(t) == drop(t, "queries")

\* the caller's table after line 67: drop returned a copy
table_after_save(t) == t

\* df.to_dict('records') and json.dump: one object per row, fields in column order
to_dict_records(t) ==
    [k \in 1..Len(t.rows) |->
        [j \in 1..Len(t.columns) |->
            <<json_key(t.columns[j]),
              json_dumps(t.columns[j], t.rows[k][t.columns[j]])>>]]

\* pd.DataFrame(records) of the parsed objects
DataFrame(records) ==
    IF records = <<>> THEN [columns |-> <<>>, rows |-> <<>>]
    ELSE [columns |-> [j \in 1..Len(records[1]) |-> key_name(records[1][j][1])],
          rows |-> [k \in 1..Len(records) |->
                       [c \in {key_name(records[k][j][1]) : j \in 1..Len(records[k])} |->
                           LET j == CHOOSE j \in 1..Len(records[k]) :
                                        key_name(records[k][j][1]) = c
                           IN  json_loads(records[k][j][2])]]]

\* d[key] = value of a dict kept in insertion order
dict_set(d, key, value) ==
    IF \E k \in 1..Len(d) : d[k][1] = key
    THEN [k \in 1..Len(d) |-> IF d[k][1] = key THEN <<key, value>> ELSE d[k]]
    ELSE Append(d, <<key, value>>)

\* lines 65-68: the 'results' member of save_data
RECURSIVE save_results(_, _)
save_results(items, k) ==
    IF k = 0 THEN <<>>
    ELSE dict_set(save_results(items, k - 1), int_str(items[k][1]),
                  to_dict_records(drop(items[k][2], "queries")))

\* lines 95-97
RECURSIVE load_results(_, _)
load_results(items, k) ==
    IF k = 0 THEN <<>>
    ELSE dict_set(load_results(items, k - 1), int(items[k][1]), DataFrame(items[k][2]))

ResultColumns == <<"ngram", "query_count", "cvr", "queries">>

StoreRowPool ==
    {[ngram |-> <<"a">>, query_count |-> 1, cvr |-> <<0, 1>>,
      queries |-> <<<<"a">>>>],
     [ngram |-> <<"b", " ", "a">>, query_count |-> 12, cvr |-> <<5, 2>>,
      queries |-> <<<<"b", " ", "a">>>>],
     [ngram |-> <<"C">>, query_count |-> 2, cvr |-> <<50, 1>>,
      queries |-> <<<<"C", " ", "a">>, <<"C">>>>]}

\* result tables: with rows, without (pd.DataFrame([]) has no columns), and
\* one that has no queries column
StoreTables ==
    {[columns |-> ResultColumns, rows |-> r] : r \in SeqsUpTo(StoreRowPool, MaxStoreRows)}
    \cup {[columns |-> <<>>, rows |-> <<>>]}
    \cup {drop([columns |-> ResultColumns, rows |-> <<r>>], "queries") :
             r \in {x \in StoreRowPool : x.query_count = 12}}

StoreKeys == {1, 2, 10}

\* mappings with distinct keys
StoreMappings ==
    {m \in SeqsUpTo(StoreKeys \X StoreTables, MaxStoreKeys) :
        \A a, b \in 1..Len(m) : m[a][1] = m[b][1] => a = b}

InitStore ==
    /\ results \in StoreMappings
    /\ saved_file = <<>> /\ loaded = <<>> /\ store_pc = "start"
    /\ n = 1 /\ stop_words = {} /\ df = <<>> /\ columns = AllColumns
    /\ min_occurrences = 1
    /\ query = <<>> /\ ngrams = <<>> /\ xpc = "idle"
    /\ pc = "idle" /\ i = 0 /\ ngram_data = <<>> /\ result = <<>> /\ error = NoError
    /\ vpc = "idle" /\ df_copy = <<>> /\ df_exploded = <<>> /\ vresult = <<>>
    /\ verror = NoError
    /\ CleanIdle /\ WasteIdle /\ KeywordsIdle /\ ParallelIdle /\ ValidatorIdle
    /\ AppIdle

\* save_analysis, lines 55-77
SaveAnalysis ==
    /\ store_pc = "start"
    /\ saved_file' = save_results(results, Len(results))
    /\ results' = [k \in 1..Len(results) |->
                      <<results[k][1], table_after_save(results[k][2])>>]
    /\ store_pc' = "saved"
    /\ UNCHANGED <<loaded, input_vars, tool_vars, parallel_vars, validator_vars, app_vars>>

\* load_analysis, lines 90-100
LoadAnalysis ==
    /\ store_pc = "saved"
    /\ loaded' = load_results(saved_file, Len(saved_file))
    /\ store_pc' = "loaded"
    /\ UNCHANGED <<results, saved_file, input_vars, tool_vars, parallel_vars, validator_vars,
                   app_vars>>

NextStore == SaveAnalysis \/ LoadAnalysis

SpecStore == InitStore /\ [][NextStore]_vars

(***************************************************************************)
(* validate_and_map_columns.  A column name is a sequence of characters,   *)
(* a cell is a number, a string or null, a row is the sequence of its      *)
(* cells in column order.  A numeric value is a record: nan, or a value.   *)
(***************************************************************************)
\* config.COLUMN_MAPPINGS: the candidate names of a target, in priority order
COLUMN_MAPPINGS(target) ==
    IF target = "query"
         THEN <<<<"s", "e", "a", "r", "c", "h", " ", "t", "e", "r", "m">>,
              <<"s", "e", "a", "r", "c", "h", "_", "t", "e", "r", "m">>,
              <<"q", "u", "e", "r", "y">>,
              <<"s", "e", "a", "r", "c", "h", " ", "t", "e", "r", "m", "s">>,
              <<"s", "e", "a", "r", "c", "h", "t", "e", "r", "m">>>>
    ELSE IF target = "clicks"
         THEN <<<<"i", "n", "t", "e", "r", "a", "c", "t", "i", "o", "n", "s">>,
              <<"c", "l", "i", "c", "k", "s">>,
              <<"c", "l", "i", "c", "k">>,
              <<"i", "n", "t", "e", "r", "a", "c", "t", "i", "o", "n">>,
              <<"t", "o", "t", "a", "l", " ", "c", "l", "i", "c", "k", "s">>>>
    ELSE IF target = "cost"
         THEN <<<<"c", "o", "s", "t">>,
              <<"s", "p", "e", "n", "d">>,
              <<"c", "o", "s", "t", "_", "g", "b", "p">>,
              <<"t", "o", "t", "a", "l", " ", "c", "o", "s", "t">>,
              <<"t", "o", "t", "a", "l", "c", "o", "s", "t">>>>
    ELSE IF target = "conversions"
         THEN <<<<"c", "o", "n", "v", "e", "r", "s", "i", "o", "n", "s">>,
              <<"c", "o", "n", "v", ".">>,
              <<"c", "o", "n", "v">>,
              <<"c", "o", "n", "v", "e", "r", "t", "e", "d">>,
              <<"t", "o", "t", "a", "l", " ", "c", "o", "n", "v", "e", "r", "s", "i", "o", "n", "s">>>>
    ELSE <<<<"i", "m", "p", "r", ".">>,
              <<"i", "m", "p", "r", "e", "s", "s", "i", "o", "n", "s">>,
              <<"i", "m", "p", "r">>,
              <<"i", "m", "p", "r", "e", "s", "s", "i", "o", "n">>>>

\* config.REQUIRED_COLUMNS
REQUIRED_COLUMNS == {"query", "clicks", "cost", "conversions"}

\* the order COLUMN_MAPPINGS.items() yields the targets in
TargetOrder == <<"query", "clicks", "cost", "conversions", "impressions">>

AsciiUpper == <<"D", "E", "P", "Q", "S">>

AsciiLower == <<"d", "e", "p", "q", "s">>

\* Index.str.lower(), one character
name_lower(c) ==
    IF \E k \in 1..Len(AsciiUpper) : AsciiUpper[k] = c
    THEN <<AsciiLower[CHOOSE k \in 1..Len(AsciiUpper) : AsciiUpper[k] = c]>>
    ELSE lower(c)

RECURSIVE names_str_lower(_)
names_str_lower(s) ==
    IF s = <<>> THEN <<>> ELSE name_lower(Head(s)) \o names_str_lower(Tail(s))

\* Index.str.strip(): without the whitespace at both ends
strip(s) ==
    LET inked == {k \in 1..Len(s) : ~IsSpace(s[k])}
    IN  IF inked = {} THEN <<>>
        ELSE SubSeq(s, CHOOSE a \in inked : \A b \in inked : a <= b,
                       CHOOSE a \in inked : \A b \in inked : a >= b)

\* line 66: df.columns.str.lower().str.strip()
normalized(cols) == [k \in 1..Len(cols) |-> strip(names_str_lower(cols[k]))]

\* the last candidate that is a column
find_column_last(cols, names) ==
    LET hits == {k \in 1..Len(names) : names[k] \in Range(cols)}
    IN  IF hits = {} THEN NoneValue
        ELSE names[CHOOSE k \in hits : \A h \in hits : k >= h]

\* find_column: the first candidate that is a column, else None
find_column(cols, names) ==
    LET hits == {k \in 1..Len(names) : names[k] \in Range(cols)}
    IN  IF hits = {} THEN NoneValue
        ELSE names[CHOOSE k \in hits : \A h \in hits : k <= h]

\* "if found_col:"
Truthy(x) == x # NoneValue /\ x # <<>>

\* lines 72-79: the column found for each target that has one
mapped_columns(cols) ==
    [t \in {u \in Range(TargetOrder) : Truthy(find_column(cols, COLUMN_MAPPINGS(u)))} |->
        find_column(cols, COLUMN_MAPPINGS(t))]

\* lines 80-82: the entries of the missing list, "target (cand1/cand2)"
missing_entries(cols) ==
    LET absent == SelectSeq(TargetOrder,
                     LAMBDA t : /\ ~Truthy(find_column(cols, COLUMN_MAPPINGS(t)))
                                /\ t \in REQUIRED_COLUMNS)
    IN  [k \in 1..Len(absent) |->
            <<absent[k], SubSeq(COLUMN_MAPPINGS(absent[k]), 1, 2)>>]

\* lines 95-97: impressions is a copy of clicks when it was not mapped
with_impressions(m) ==
    IF "impressions" \in DOMAIN m THEN m
    ELSE [t \in (DOMAIN m) \cup {"impressions"} |->
             IF t = "impressions" THEN m["clicks"] ELSE m[t]]

IsDecimal(s) == s # <<>> /\ \A k \in 1..Len(s) : s[k] \in Range(DecimalDigits)

NotANumber == [nan |-> TRUE, value |-> 0]

\* pd.to_numeric(errors='coerce'), one cell
to_numeric(cell) ==
    IF cell.kind = "num" THEN [nan |-> FALSE, value |-> cell.value]
    ELSE IF cell.kind = "str" /\ IsDecimal(cell.value)
         THEN [nan |-> FALSE, value |-> int(cell.value)]
    ELSE NotANumber

\* the coerced value kept as it is
fillna_skipped(x, v) == x

\* Series.fillna(v), one value
fillna(x, v) == IF x.nan THEN [nan |-> FALSE, value |-> v] ELSE x

\* result['query'].notna() & (result['query'] != ''), one cell
query_kept(cell) ==
    /\ cell.kind # "null"
    /\ ~(cell.kind = "str" /\ cell.value = <<>>)

\* df[name] at one row
cell_of(cols, row, name) == row[CHOOSE p \in 1..Len(cols) : cols[p] = name]

\* lines 101-106, one row
clean_row(cols, row, m) ==
    [query |-> cell_of(cols, row, m["query"]),
     clicks |-> fillna(to_numeric(cell_of(cols, row, m["clicks"])), 0),
     cost |-> fillna(to_numeric(cell_of(cols, row, m["cost"])), 0),
     conversions |-> fillna(to_numeric(cell_of(cols, row, m["conversions"])), 0),
     impressions |-> fillna(to_numeric(cell_of(cols, row, m["impressions"])), 0)]

\* lines 101-109
clean_table(cols, rows, m) ==
    [columns |-> TargetOrder,
     rows |-> SelectSeq([k \in 1..Len(rows) |-> clean_row(cols, rows[k], m)],
                        LAMBDA r : query_kept(r.query))]

\* column names of uploaded files, as typed: mixed case, padded, synonyms
RawNamePool ==
    <<<<"S", "e", "a", "r", "c", "h", " ", "t", "e", "r", "m">>,
      <<"Q", "u", "e", "r", "y", " ">>,
      <<"i", "n", "t", "e", "r", "a", "c", "t", "i", "o", "n", "s">>,
      <<" ", "c", "l", "i", "c", "k", "s">>,
      <<"S", "P", "E", "N", "D">>,
      <<"c", "o", "s", "t">>,
      <<"c", "o", "n", "v", ".">>,
      <<"i", "m", "p", "r", ".">>,
      <<"c", "a", "m", "p", "a", "i", "g", "n">>>>

Text(s) == [kind |-> "str", value |-> s]

Number(k) == [kind |-> "num", value |-> k]

Null == [kind |-> "null", value |-> <<>>]

RowKinds == {"plain", "text", "gaps", "empty"}

\* the cell a row of a kind has in the column RawNamePool[p]: the first two
\* columns hold queries, the others what the tools export as numbers
CellOf(kind, p) ==
    IF kind = "plain"
    THEN IF p = 1 THEN Text(<<"a">>) ELSE IF p = 2 THEN Text(<<"b">>) ELSE Number(p)
    ELSE IF kind = "text"
    THEN IF p = 1 THEN Text(<<" ">>) ELSE IF p = 2 THEN Text(<<"b">>)
         ELSE IF p % 2 = 1 THEN Text(int_str(p + 10)) ELSE Text(<<"1", ",", "5">>)
    ELSE IF kind = "gaps"
    THEN IF p = 1 THEN Text(<<"a">>) ELSE IF p = 2 THEN Null
         ELSE IF p % 2 = 1 THEN Null ELSE Number(p)
    ELSE IF p = 1 THEN Text(<<>>) ELSE IF p = 2 THEN Text(<<"b">>) ELSE Number(p)

InitValidator ==
    /\ \E S \in SUBSET (1..Len(RawNamePool)) :
       \E kinds \in SeqsUpTo(RowKinds, MaxValidatorRows) :
          LET at == SelectSeq([p \in 1..Len(RawNamePool) |-> p], LAMBDA p : p \in S)
          IN  /\ upload_columns = [j \in 1..Len(at) |-> RawNamePool[at[j]]]
              /\ upload_rows = [r \in 1..Len(kinds) |->
                                   [j \in 1..Len(at) |-> CellOf(kinds[r], at[j])]]
    /\ mapped = <<>> /\ validated = <<>> /\ val_error = NoError /\ val_pc = "start"
    /\ n = 1 /\ stop_words = {} /\ df = <<>> /\ columns = AllColumns
    /\ min_occurrences = 1
    /\ query = <<>> /\ ngrams = <<>> /\ xpc = "idle"
    /\ pc = "idle" /\ i = 0 /\ ngram_data = <<>> /\ result = <<>> /\ error = NoError
    /\ vpc = "idle" /\ df_copy = <<>> /\ df_exploded = <<>> /\ vresult = <<>>
    /\ verror = NoError
    /\ CleanIdle /\ WasteIdle /\ KeywordsIdle /\ ParallelIdle /\ StoreIdle
    /\ AppIdle

\* validate_and_map_columns, lines 63-115
ValidateAndMap ==
    /\ val_pc = "start"
    /\ \E cols \in {normalized(upload_columns)} :
       \E m \in {mapped_columns(cols)} :
       \E missing \in {missing_entries(cols)} :
           /\ upload_columns' = cols
           /\ IF missing # <<>>
              THEN /\ val_error' = [type |-> "ValueError",
                                    begins |-> "Missing required columns",
                                    missing |-> missing,
                                    available |-> cols]
                   /\ mapped' = m
                   /\ val_pc' = "raised"
                   /\ UNCHANGED validated
              ELSE /\ mapped' = with_impressions(m)
                   /\ validated' = clean_table(cols, upload_rows, mapped')
                   /\ val_pc' = "done"
                   /\ UNCHANGED val_error
    /\ UNCHANGED <<upload_rows, input_vars, tool_vars, parallel_vars, store_vars, app_vars>>

NextValidator == ValidateAndMap

SpecValidator == InitValidator /\ [][NextValidator]_vars

(***************************************************************************)
(* run_analysis and run_analysis_cached.  The cache of st.cache_data is a  *)
(* set of entries, one per key; the key is the tuple of the arguments of   *)
(* the call, the table argument by its content.  A step is the start of a  *)
(* run, one iteration of the loop over the sizes, or the assignment of the *)
(* session's analyzed_data; between runs an entry of the cache may expire. *)
(***************************************************************************)
AppQueryA == <<"a", " ", "a", " ", "a">>

AppQueryB == <<"B", " ", "a">>

\* the validated tables of the session: two uploads, and one that lacks a column
AppDatasets ==
    <<[rows |-> <<Row(AppQueryA, <<2, 3, 1, 5>>, AllColumns),
                  Row(AppQueryB, <<0, 1, 1, 5>>, AllColumns)>>,
       columns |-> AllColumns],
      [rows |-> <<Row(AppQueryB, <<2, 3, 1, 5>>, AllColumns)>>,
       columns |-> AllColumns],
      [rows |-> <<Row(AppQueryA, <<2, 3, 1, 5>>, AllColumns \ {"cost"}),
                  Row(AppQueryB, <<0, 1, 1, 5>>, AllColumns \ {"cost"})>>,
       columns |-> AllColumns \ {"cost"}]>>

\* the settings dictionary; stop_words is the set in the order it iterates
Settings(sizes, min_occ, sw, by, asc) ==
    [ngram_sizes |-> sizes, min_occurrences |-> min_occ, stop_words |-> sw,
     sort_metric |-> by, sort_ascending |-> asc]

DefaultSettings == Settings(<<1, 2>>, 1, <<>>, "total_cost", FALSE)

\* what a run is started with: a table and settings
AppScenarios ==
    {<<1, DefaultSettings>>,
     <<1, Settings(<<1, 2>>, 1, <<>>, "total_cost", TRUE)>>,
     <<1, Settings(<<1, 2>>, 1, <<>>, "total_clicks", FALSE)>>,
     <<1, Settings(<<1, 2>>, 1, <<<<"a">>, <<"c">>>>, "total_cost", FALSE)>>,
     <<1, Settings(<<1, 2>>, 1, <<<<"c">>, <<"a">>>>, "total_cost", FALSE)>>,
     <<1, Settings(<<1, 2>>, 2, <<>>, "total_cost", FALSE)>>,
     <<1, Settings(<<2, 1>>, 1, <<>>, "total_cost", FALSE)>>,
     <<2, DefaultSettings>>,
     <<2, Settings(<<1, 3>>, 1, <<>>, "waste_score", FALSE)>>,
     <<3, DefaultSettings>>}

NoTuple == [none |-> TRUE, items |-> <<>>]

\* line 187: tuple(sorted(settings['stop_words'])) if settings['stop_words'] else None
sorted_tuple(sw) ==
    IF sw # <<>> THEN [none |-> FALSE, items |-> sorted_keys(Range(sw))] ELSE NoTuple

\* line 163: set(stop_words_tuple) if stop_words_tuple else None
tuple_set(t) == IF ~t.none /\ t.items # <<>> THEN Range(t.items) ELSE {}

\* the accumulator of analyze_ngrams after the rows 1..k of a table
RECURSIVE accumulated(_, _, _, _)
accumulated(d, size, sw, k) ==
    IF k = 0 THEN <<>>
    ELSE accumulate_all(accumulated(d, size, sw, k - 1),
                        extract_ngrams(d.rows[k].query, size, sw), d.rows[k], d.columns)

\* analyze_ngrams(df, n, min_occurrences, stop_words): the table, or the error
analyze_ngrams(d, size, min_occ, sw) ==
    IF missing_cols(d.columns) # <<>>
    THEN [ok |-> FALSE, error |-> "ValueError", table |-> <<>>]
    ELSE [ok |-> TRUE, error |-> "none",
          table |-> build_result(accumulated(d, size, sw, Len(d.rows)), min_occ)]

\* the columns of a table analyze_ngrams returns
ResultFields ==
    {"ngram", "query_count", "total_clicks", "total_cost", "total_conversions",
     "total_impressions", "ctr", "cvr", "cpa", "queries"}

\* result.sort_values(by, ascending=asc) on a column of integers: every
\* order the sort can leave, rows of equal value in any order
sort_values_by(rows, by, asc) ==
    {[k \in 1..Len(rows) |-> rows[p[k]]] : p \in
        {p \in Orders(Len(rows)) :
            \A j, k \in 1..Len(rows) : j < k =>
                IF asc THEN rows[p[j]][by] <= rows[p[k]][by]
                ELSE rows[p[j]][by] >= rows[p[k]][by]}}

\* the body of run_analysis_cached, lines 162-172: every outcome of a call
run_analysis_body(d, size, min_occ, t, by, asc) ==
    LET res == analyze_ngrams(d, size, min_occ, tuple_set(t))
    IN  IF ~res.ok THEN {res}
        ELSE IF res.table = <<>> THEN {res}
        ELSE IF by \notin ResultFields
             THEN {[ok |-> FALSE, error |-> "KeyError", table |-> <<>>]}
        ELSE {[ok |-> TRUE, error |-> "none", table |-> tbl] :
                 tbl \in sort_values_by(res.table, by, asc)}

\* a key that does not tell the sort directions apart
cache_key_without_direction(d, size, min_occ, t, by, asc) ==
    <<d, size, min_occ, t, by, FALSE>>

\* st.cache_data: the key of a call is made of all its arguments
cache_key(d, size, min_occ, t, by, asc) == <<d, size, min_occ, t, by, asc>>

\* the run starts from the mapping of the run before
results_carried_over(before) == before.items

\* line 184: results = {}
results_at_start(before) == <<>>

NoData == [none |-> TRUE, items |-> <<>>]

InitApp ==
    /\ app_df = [rows |-> <<>>, columns |-> AllColumns]
    /\ settings = DefaultSettings
    /\ stop_words_tuple = NoTuple
    /\ run_results = <<>> /\ run_k = 0
    /\ analyzed_data = NoData
    /\ cache = {}
    /\ computed = <<>> /\ shown_errors = <<>>
    /\ run_count = 0
    /\ app_pc = "ready"
    /\ n = 1 /\ stop_words = {} /\ df = <<>> /\ columns = AllColumns
    /\ min_occurrences = 1
    /\ query = <<>> /\ ngrams = <<>> /\ xpc = "idle"
    /\ pc = "idle" /\ i = 0 /\ ngram_data = <<>> /\ result = <<>> /\ error = NoError
    /\ vpc = "idle" /\ df_copy = <<>> /\ df_exploded = <<>> /\ vresult = <<>>
    /\ verror = NoError
    /\ CleanIdle /\ WasteIdle /\ KeywordsIdle /\ ParallelIdle /\ StoreIdle
    /\ ValidatorIdle

\* run_analysis is called, lines 183-187
RunStart ==
    /\ app_pc = "ready"
    /\ run_count < MaxRuns
    /\ \E sc \in AppScenarios :
          /\ app_df' = AppDatasets[sc[1]]
          /\ settings' = sc[2]
          /\ stop_words_tuple' = sorted_tuple(sc[2].stop_words)
    /\ run_results' = results_at_start(analyzed_data)
    /\ run_k' = 1
    /\ computed' = <<>> /\ shown_errors' = <<>>
    /\ run_count' = run_count + 1
    /\ app_pc' = "loop"
    /\ UNCHANGED <<analyzed_data, cache, input_vars, tool_vars, parallel_vars,
                   store_vars, validator_vars>>

\* lines 189-202, one size: the cached call, or what its exception leaves
RunSize ==
    /\ app_pc = "loop"
    /\ run_k <= Len(settings.ngram_sizes)
    /\ \E size \in {settings.ngram_sizes[run_k]} :
       \E key \in {cache_key(app_df, size, settings.min_occurrences, stop_words_tuple,
                             settings.sort_metric, settings.sort_ascending)} :
          IF \E e \in cache : e.key = key
          THEN /\ run_results' = dict_set(run_results, size,
                                          (CHOOSE e \in cache : e.key = key).value)
               /\ UNCHANGED <<cache, computed, shown_errors>>
          ELSE \E out \in run_analysis_body(app_df, size, settings.min_occurrences,
                                            stop_words_tuple, settings.sort_metric,
                                            settings.sort_ascending) :
                  /\ computed' = Append(computed, size)
                  /\ IF out.ok
                     THEN /\ cache' = cache \cup {[key |-> key, value |-> out.table]}
                          /\ run_results' = dict_set(run_results, size, out.table)
                          /\ UNCHANGED shown_errors
                     ELSE /\ shown_errors' = Append(shown_errors, <<size, out.error>>)
                          /\ UNCHANGED <<cache, run_results>>
    /\ run_k' = run_k + 1
    /\ UNCHANGED <<app_df, settings, stop_words_tuple, analyzed_data, run_count, app_pc,
                   input_vars, tool_vars, parallel_vars, store_vars, validator_vars>>

\* line 204: st.session_state.analyzed_data = results
RunFinish ==
    /\ app_pc = "loop"
    /\ run_k > Len(settings.ngram_sizes)
    /\ analyzed_data' = [none |-> FALSE, items |-> run_results]
    /\ app_pc' = "ready"
    /\ UNCHANGED <<app_df, settings, stop_words_tuple, run_results, run_k, cache,
                   computed, shown_errors, run_count,
                   input_vars, tool_vars, parallel_vars, store_vars, validator_vars>>

\* ttl=3600: an entry of the cache expires
CacheExpire ==
    /\ app_pc = "ready"
    /\ \E e \in cache : cache' = cache \ {e}
    /\ UNCHANGED <<app_df, settings, stop_words_tuple, run_results, run_k,
                   analyzed_data, computed, shown_errors, run_count, app_pc,
                   input_vars, tool_vars, parallel_vars, store_vars, validator_vars>>

NextApp == RunStart \/ RunSize \/ RunFinish \/ CacheExpire

SpecApp == InitApp /\ [][NextApp]_vars

(***************************************************************************)
(* Properties.                                                             *)
(***************************************************************************)

\* the n-grams extracted from row k of the input table
RowNgrams(k) == extract_ngrams(df[k].query, n, stop_words)

\* how often g occurs in a list of n-grams
Occurrences(g, grams) == Cardinality({k \in 1..Len(grams) : grams[k] = g})

\* the value a row contributes for a field of the aggregate
FieldOf(row, field) ==
    IF field = "impressions" /\ "impressions" \notin columns
    THEN row.clicks
    ELSE row[field]

\* the sum over rows 1..k of the field, once per occurrence of g in the row
RECURSIVE SumWithMultiplicity(_, _, _)
SumWithMultiplicity(k, g, field) ==
    IF k = 0 THEN 0
    ELSE SumWithMultiplicity(k - 1, g, field)
         + Occurrences(g, RowNgrams(k)) * FieldOf(df[k], field)

\* how often g is extracted over rows 1..k
RECURSIVE TotalOccurrences(_, _)
TotalOccurrences(k, g) ==
    IF k = 0 THEN 0 ELSE TotalOccurrences(k - 1, g) + Occurrences(g, RowNgrams(k))

\* every n-gram extracted from some row
AllExtracted == UNION {Range(RowNgrams(k)) : k \in 1..Len(df)}

Remortgage == <<"r", "e", "m", "o", "r", "t", "g", "a", "g", "e">>

\* C1: every n-gram in the output of analyze_ngrams has total_clicks,
\* total_cost, total_conversions and total_impressions equal to the sums of
\* those fields over the rows whose n-gram list contains it, a row counted
\* once per occurrence; the three 'remortgage' rows give 'remortgage'
\* total_clicks 450, total_cost 675, total_conversions 45, cvr 10, cpa 15.
C1_AggregationSums ==
    (pc = "done" /\ n >= 1) =>
        /\ \A r \in Range(result) :
              /\ r.total_clicks = SumWithMultiplicity(Len(df), r.ngram, "clicks")
              /\ r.total_cost = SumWithMultiplicity(Len(df), r.ngram, "cost")
              /\ r.total_conversions = SumWithMultiplicity(Len(df), r.ngram, "conversions")
              /\ r.total_impressions = SumWithMultiplicity(Len(df), r.ngram, "impressions")
        /\ df = ScenarioTable =>
              \E r \in Range(result) :
                  /\ r.ngram = Remortgage
                  /\ r.query_count = 3
                  /\ r.total_clicks = 450
                  /\ r.total_cost = 675
                  /\ r.total_conversions = 45
                  /\ r.cvr = <<10, 1>>
                  /\ r.cpa = <<15, 1>>

\* two rows contribute to one n-gram, one of them more than once
C1_Witness ==
    /\ pc = "done" /\ n >= 1 /\ Len(df) = 2
    /\ \E r \in Range(result) :
          /\ Occurrences(r.ngram, RowNgrams(1)) >= 2
          /\ Occurrences(r.ngram, RowNgrams(2)) = 1
          /\ df[1].cost > 0 /\ df[2].cost > 0
          /\ r.total_cost = 3 * df[1].cost + df[2].cost

Tokens == clean_query(query, stop_words)

\* C3: extract_ngrams(q, n) returns max(0, token_count(q) - n + 1) n-grams
\* for every n, and the empty list whenever token_count(q) < n.
C3_NgramCount ==
    xpc = "returned" =>
        /\ Len(ngrams) = Max(0, Len(Tokens) - n + 1)
        /\ Len(Tokens) < n => ngrams = <<>>

\* a query with tokens but fewer than n of them, stop words removed
C3_Witness ==
    /\ xpc = "returned"
    /\ stop_words # {}
    /\ Len(clean_query(query, {})) >= n
    /\ Len(Tokens) = 1 /\ n = 2
    /\ ngrams = <<>>

\* tokens t[j], ..., t[j+size-1] joined by single spaces
RECURSIVE Window(_, _, _)
Window(t, j, size) ==
    IF size = 1 THEN t[j] ELSE t[j] \o <<" ">> \o Window(t, j + 1, size - 1)

\* C4: for n >= 1 and m >= n tokens, the j-th n-gram is tokens j..j+n-1
\* joined by single spaces, for j = 0..m-n in order; each has n tokens.
C4_SlidingWindow ==
    (xpc = "returned" /\ n >= 1 /\ Len(Tokens) >= n) =>
        /\ Len(ngrams) = Len(Tokens) - n + 1
        /\ \A j \in 1..(Len(Tokens) - n + 1) :
              /\ ngrams[j] = Window(Tokens, j, n)
              /\ Len(split(ngrams[j])) = n

\* two different windows of two tokens each
C4_Witness ==
    /\ xpc = "returned" /\ n = 2
    /\ Len(ngrams) = 2
    /\ ngrams[1] # ngrams[2]

\* C5: extract_ngrams rejects n < 1 with an input error and returns no
\* n-grams for it.
C5_RejectsInvalidSize ==
    (n < 1 /\ xpc # "call") => (xpc = "raised" /\ ngrams = <<>>)

MetricIs(m, num, den, scale) ==
    IF den = 0 THEN m = <<0, 1>>
    ELSE m[2] > 0 /\ m[1] * den = num * scale * m[2]

RowMetricsDefined(r) ==
    /\ MetricIs(r.ctr, r.total_clicks, r.total_impressions, 100)
    /\ MetricIs(r.cvr, r.total_conversions, r.total_clicks, 100)
    /\ MetricIs(r.cpa, r.total_cost, r.total_conversions, 1)

\* C7: ctr = total_clicks/total_impressions*100, cvr =
\* total_conversions/total_clicks*100, cpa = total_cost/total_conversions,
\* each exactly 0 when its denominator is 0; the derivation never raises and
\* never yields an undefined value.
C7_DerivedMetrics ==
    /\ pc # "raised" /\ vpc # "raised"
    /\ pc = "done" => \A r \in Range(result) : RowMetricsDefined(r)
    /\ vpc = "done" => \A r \in Range(vresult) : RowMetricsDefined(r)

\* all three denominators of an output row are 0, with clicks in another row
C7_Witness ==
    /\ pc = "done"
    /\ \E r \in Range(result) :
          /\ r.total_impressions = 0 /\ r.total_clicks > 0 /\ r.ctr = <<0, 1>>
          /\ r.total_conversions = 0 /\ r.total_cost > 0 /\ r.cpa = <<0, 1>>
    /\ \E r \in Range(result) : r.total_clicks = 0 /\ r.total_conversions > 0

\* the required columns the input table lacks
MissingRequired == {col \in Range(required_cols) : col \notin columns}

\* C8: when a required column is absent analyze_ngrams raises a validation
\* error listing exactly the missing columns, before any row is processed;
\* a missing impressions column alone never raises.
C8_MissingColumnsError ==
    /\ (MissingRequired # {} /\ pc # "start") =>
          /\ pc = "raised"
          /\ error.type = "ValueError"
          /\ Range(error.columns) = MissingRequired
          /\ Len(error.columns) = Cardinality(MissingRequired)
          /\ i = 0 /\ ngram_data = <<>> /\ result = <<>>
    /\ MissingRequired = {} => (pc # "raised" /\ error = NoError)

\* two required columns are missing from a table with a row and impressions
C8_Witness ==
    /\ pc = "raised"
    /\ Cardinality(MissingRequired) = 2
    /\ "impressions" \in columns
    /\ Len(df) = 1

\* the fields of an output row the two strategies must agree on
Compared(r) ==
    <<r.ngram, r.query_count, r.total_clicks, r.total_cost, r.total_conversions,
      r.total_impressions, r.ctr, r.cvr, r.cpa>>

C10_VectorizedSameErrorContract ==
    (MissingRequired # {} /\ vpc # "start") =>
        /\ vpc = "raised"
        /\ verror.type = "ValueError"
        /\ Range(verror.columns) = MissingRequired
        /\ df_copy = <<>> /\ df_exploded = <<>> /\ vresult = <<>>

\* the sum over rows 1..k of each row's own field, once per occurrence of g
RECURSIVE SumOwnField(_, _, _)
SumOwnField(k, g, field) ==
    IF k = 0 THEN 0
    ELSE SumOwnField(k - 1, g, field) + Occurrences(g, RowNgrams(k)) * df[k][field]

\* C11: without an impressions column each row's clicks serve as its
\* impressions in both strategies, so total_impressions = total_clicks and
\* ctr is 100 when total_clicks > 0 and 0 otherwise; with the column the
\* row's own impressions are summed and clicks are never substituted.
C11_ImpressionsDefault ==
    \A r \in (IF pc = "done" THEN Range(result) ELSE {})
             \cup (IF vpc = "done" THEN Range(vresult) ELSE {}) :
        IF "impressions" \in columns
        THEN r.total_impressions = SumOwnField(Len(df), r.ngram, "impressions")
        ELSE /\ r.total_impressions = r.total_clicks
             /\ r.total_clicks = SumOwnField(Len(df), r.ngram, "clicks")
             /\ r.ctr = IF r.total_clicks > 0 THEN <<100, 1>> ELSE <<0, 1>>

\* both strategies returned for a table without impressions, with clicks
C11_Witness ==
    /\ pc = "done" /\ vpc = "done"
    /\ "impressions" \notin columns
    /\ \E r \in Range(result) : r.total_clicks > 0 /\ r.ctr = <<100, 1>>
    /\ \E r \in Range(vresult) : r.total_clicks = 0 /\ r.ctr = <<0, 1>>

\* C19: cleaning is idempotent: joining the tokens clean_query returned with
\* single spaces and cleaning the joined text again with the same stop
\* words returns the same tokens.
C19_CleanIdempotent ==
    cpc = "recleaned" => reclean_words = clean_words

\* a text with an uppercase letter and punctuation, cleaned twice with a
\* stop-word set, two tokens left
C19_Witness ==
    /\ cpc = "recleaned"
    /\ "B" \in Range(query) /\ "!" \in Range(query)
    /\ stop_words # {}
    /\ Len(clean_words) >= 2
    /\ join(clean_words) # query

\* letters, digits and the underscore; whitespace; uppercase letters
Letters == {"a", "b", "d", "e", "g", "h", "i", "l", "m", "n", "o", "r", "s", "t",
            "B", "N", "I", "C"}
Digits == {"1", "5"}
WordCharacter(c) == c \in Letters \cup Digits \cup {"_"}
Uppercase(c) == c \in {"B", "N", "I", "C"}

\* the text clean_query works on: the lowercased text form of the input
Lowered == str_lower(str(query))

\* positions s..e of text are a maximal run of word characters
IsRun(text, s, e) ==
    /\ s <= e
    /\ \A k \in s..e : WordCharacter(text[k])
    /\ s = 1 \/ ~WordCharacter(text[s - 1])
    /\ e = Len(text) \/ ~WordCharacter(text[e + 1])

RunsOf(text) ==
    LET starts == {k \in 1..Len(text) :
                      WordCharacter(text[k]) /\ (k = 1 \/ ~WordCharacter(text[k - 1]))}
        ends == {k \in 1..Len(text) :
                    WordCharacter(text[k]) /\ (k = Len(text) \/ ~WordCharacter(text[k + 1]))}
    IN  {r \in starts \X ends : IsRun(text, r[1], r[2])}

\* the maximal runs of word characters of text, left to right
MaximalRuns(text) ==
    LET runs == RunsOf(text)
    IN  [k \in 1..Cardinality(runs) |->
            LET r == CHOOSE r \in runs :
                         Cardinality({q \in runs : q[1] < r[1]}) = k - 1
            IN  SubSeq(text, r[1], r[2])]

\* the tokens are the maximal runs of the lowercased text, stop words left
\* out; none is empty or holds a character that is not a word character
TokensAreRuns ==
    /\ clean_words = SelectSeq(MaximalRuns(Lowered), LAMBDA w : w \notin stop_words)
    /\ \A w \in Range(clean_words) :
          w # <<>> /\ \A c \in Range(w) : WordCharacter(c)
    /\ (\A c \in Range(str(query)) : ~WordCharacter(c)) => clean_words = <<>>

\* C20, as stated: the tokens are the maximal runs of word characters of the
\* lowercased text and no token contains an uppercase letter.
C20_NoUppercase ==
    cpc # "call" =>
        /\ TokensAreRuns
        /\ \A w \in Range(clean_words) : \A c \in Range(w) : ~Uppercase(c)

\* C20: clean_query returns the maximal runs of word characters of the
\* lowercased text form of its input, every other character that is not
\* whitespace separating tokens; no token is empty, holds whitespace or
\* punctuation, or holds a character that lowercasing changes (an uppercase
\* letter without a lowercase form stays); a text without word characters
\* gives the empty list and an input that is not text is cleaned as its
\* text form.
C20_TokensAreLoweredRuns ==
    cpc # "call" =>
        /\ TokensAreRuns
        /\ \A w \in Range(clean_words) : \A c \in Range(w) : lower(c) = <<c>>

\* an uppercase letter without a lowercase form next to punctuation
C20_Witness ==
    /\ cpc = "cleaned"
    /\ "C" \in Range(query) /\ "!" \in Range(query) /\ "B" \in Range(query)
    /\ Len(clean_words) = 2

\* the n-grams of a table
Keys(rows) == {rows[k].ngram : k \in 1..Len(rows)}

\* the value of rank k (from 0) among vals in ascending order
KthSmallest(vals, k) ==
    CHOOSE v \in Range(vals) :
        /\ Cardinality({j \in 1..Len(vals) : vals[j] < v}) <= k
        /\ k < Cardinality({j \in 1..Len(vals) : vals[j] <= v})

\* a hundred times the percentile p of vals: rank p / 100 * (N - 1),
\* interpolated linearly between the values of the two ranks around it
Percentile100(vals, p) ==
    LET pos == p * (Len(vals) - 1)
        lo == pos \div 100
        rem == pos % 100
    IN  IF rem = 0 THEN 100 * KthSmallest(vals, lo)
        ELSE (100 - rem) * KthSmallest(vals, lo) + rem * KthSmallest(vals, lo + 1)

\* the input rows that meet both thresholds
Qualifying ==
    LET ct == Percentile100(column(waste_df, "total_cost"), cost_threshold_percentile)
        vt == Percentile100(column(waste_df, "cvr"), cvr_threshold_percentile)
    IN  {r \in Range(waste_df) : 100 * r.total_cost >= ct /\ 100 * r.cvr <= vt}

\* identify_money_wasters returned for a non-empty input
Returned == wpc = "done" /\ waste_df # <<>>

\* C12: for a non-empty input, identify_money_wasters retains exactly the
\* rows with total_cost >= cost_threshold and cvr <= cvr_threshold, each
\* threshold being the linear-interpolation percentile of its column over
\* all input rows.
C12_ThresholdFilter ==
    Returned =>
        /\ Keys(money_wasters) = {r.ngram : r \in Qualifying}
        /\ Len(money_wasters) = Cardinality(Qualifying)
        /\ 100 * cost_threshold[1] = cost_threshold[2] *
              Percentile100(column(waste_df, "total_cost"), cost_threshold_percentile)
        /\ 100 * cvr_threshold[1] = cvr_threshold[2] *
              Percentile100(column(waste_df, "cvr"), cvr_threshold_percentile)

\* an interpolated cost threshold, a row kept on the cvr boundary and a
\* row dropped
C12_Witness ==
    /\ wpc = "done"
    /\ Len(waste_df) = 3
    /\ cost_threshold[2] > 1
    /\ \E r \in Range(money_wasters) : <<r.cvr, 1>> = cvr_threshold
    /\ Len(money_wasters) \in 1..2

\* C13: whenever the result is non-empty every waste_score lies in [0,1]
\* and the retained row of maximum total_cost has total_cost / max = 1.
C13_ScoreInUnitInterval ==
    (wpc = "done" /\ money_wasters # <<>>) =>
        /\ \A r \in Range(money_wasters) :
              FracLe(<<0, 1>>, r.waste_score) /\ FracLe(r.waste_score, <<1, 1>>)
        /\ \E r \in Range(money_wasters) :
              Frac(r.total_cost, max_cost(money_wasters)) = <<1, 1>>

\* the greatest total_cost among the retained rows
RetainedMax ==
    CHOOSE m \in {r.total_cost : r \in Range(money_wasters)} :
        \A r \in Range(money_wasters) : r.total_cost <= m

\* C14: each retained row's waste_score is (total_cost / M) * (1 - cvr/100)
\* with M the maximum total_cost over the retained rows (undefined when M
\* is 0), and the row's other fields are those of the input row.
C14_ScoreFormula ==
    (wpc = "done" /\ money_wasters # <<>>) =>
        \A r \in Range(money_wasters) :
            /\ IF RetainedMax = 0
               THEN r.waste_score[2] = 0
               ELSE /\ r.waste_score[2] > 0
                    /\ r.waste_score[1] * (RetainedMax * 100) =
                          r.total_cost * (100 - r.cvr) * r.waste_score[2]
            /\ \E src \in Range(waste_df) :
                  /\ src.ngram = r.ngram
                  /\ src.total_cost = r.total_cost
                  /\ src.cvr = r.cvr

\* the retained maximum is below the maximum of the input, so a row's score
\* is not what the maximum of the input would give
C14_Witness ==
    /\ wpc = "done" /\ scored
    /\ RetainedMax > 0
    /\ RetainedMax < max_of(column(waste_df, "total_cost"))
    /\ \E r \in Range(money_wasters) :
          /\ r.waste_score = <<1, 1>>
          /\ r.waste_score # Frac(r.total_cost * (100 - r.cvr),
                                  max_of(column(waste_df, "total_cost")) * 100)

\* no returned row is followed by a row of greater waste_score, and the
\* returned rows are the retained ones
NonIncreasing ==
    (wpc = "done" /\ scored) =>
        /\ \A k \in 1..(Len(money_wasters) - 1) :
              ~FracLt(money_wasters[k].waste_score, money_wasters[k + 1].waste_score)
        /\ Keys(money_wasters) = Keys(wasters_at(waste_df, cost_threshold_percentile,
                                                  cvr_threshold_percentile))
        /\ Cardinality(Keys(money_wasters)) = Len(money_wasters)

\* the place of a returned row in the input
InputIndex(r) == CHOOSE k \in 1..Len(waste_df) : waste_df[k].ngram = r.ngram

\* C15, as stated: the returned rows are in non-increasing waste_score
\* order and rows of equal waste_score keep their input order.
C15_StableSort ==
    /\ NonIncreasing
    /\ (wpc = "done" /\ scored) =>
          \A j, k \in 1..Len(money_wasters) :
              (j < k /\ money_wasters[j].waste_score = money_wasters[k].waste_score)
                  => InputIndex(money_wasters[j]) < InputIndex(money_wasters[k])

\* C15: the returned rows are the retained rows in non-increasing
\* waste_score order (no row is followed by one of greater score); the
\* order of rows of equal waste_score is not fixed.
C15_SortedDescending == NonIncreasing

\* two rows of equal score returned against their input order, before a
\* row of smaller score
C15_Witness ==
    /\ wpc = "done" /\ scored
    /\ \E j, k \in 1..Len(money_wasters) :
          /\ j < k
          /\ money_wasters[j].waste_score = money_wasters[k].waste_score
          /\ InputIndex(money_wasters[j]) > InputIndex(money_wasters[k])
    /\ \E k \in 1..(Len(money_wasters) - 1) :
          FracLt(money_wasters[k + 1].waste_score, money_wasters[k].waste_score)

\* C16: for a fixed input, a higher cost percentile (cvr percentile fixed)
\* or a lower cvr percentile (cost percentile fixed) retains a subset of
\* the rows, so never more rows.
C16_PercentileMonotone ==
    Returned =>
        /\ \A p \in PercentilePool : p > cost_threshold_percentile =>
              LET stricter == wasters_at(waste_df, p, cvr_threshold_percentile)
              IN  /\ Keys(stricter) \subseteq Keys(money_wasters)
                  /\ Len(stricter) <= Len(money_wasters)
        /\ \A q \in PercentilePool : q < cvr_threshold_percentile =>
              LET stricter == wasters_at(waste_df, cost_threshold_percentile, q)
              IN  /\ Keys(stricter) \subseteq Keys(money_wasters)
                  /\ Len(stricter) <= Len(money_wasters)

\* a higher cost percentile and a lower cvr percentile each retain fewer
\* rows, and still some
C16_Witness ==
    /\ wpc = "done"
    /\ \E p \in PercentilePool :
          /\ p > cost_threshold_percentile
          /\ Len(wasters_at(waste_df, p, cvr_threshold_percentile)) \in
                1..(Len(money_wasters) - 1)
    /\ \E q \in PercentilePool :
          /\ q < cvr_threshold_percentile
          /\ Len(wasters_at(waste_df, cost_threshold_percentile, q)) \in
                1..(Len(money_wasters) - 1)

\* C17: an empty input, and a non-empty input of which no row meets both
\* thresholds, give an empty result; no waste_score is computed then, and
\* none is ever computed for an empty selection.
C17_EmptyResult ==
    /\ (wpc = "done" /\ (waste_df = <<>> \/ Qualifying = {})) =>
          money_wasters = <<>> /\ ~scored
    /\ (wpc = "done" /\ waste_df = <<>>) =>
          cost_threshold = Unset /\ cvr_threshold = Unset
    /\ scored => money_wasters # <<>>

\* a non-empty input of which no row meets both thresholds
C17_Witness ==
    /\ wpc = "done"
    /\ Len(waste_df) >= 2
    /\ money_wasters = <<>>
    /\ ~scored
    /\ cost_threshold # Unset

\* the rows of the table whose score reaches min_waste_score
QualifyingKeywords ==
    {r \in Range(kw_money_wasters) :
        /\ r.waste_score[2] # 0
        /\ min_waste_score[1] * r.waste_score[2] <= r.waste_score[1] * min_waste_score[2]}

\* the score of the row of an n-gram
ScoreOf(g) ==
    (CHOOSE r \in Range(kw_money_wasters) : r.ngram = g).waste_score

Greater(a, b) == a[1] * b[2] > b[1] * a[2]

\* C18: generate_negative_keywords returns n-grams of rows with waste_score
\* >= min_waste_score, by descending score, cut to the first max_results:
\* never more than max_results, none below min_waste_score, none left out
\* for one of lower score, the same list for every input order when the
\* scores are distinct, and the empty list for empty input.
C18_NegativeKeywords ==
    kpc = "returned" =>
        LET out == negative_keywords
            Q == QualifyingKeywords
        IN  /\ Len(out) <= max_results
            /\ Len(out) = IF Cardinality(Q) < max_results
                          THEN Cardinality(Q) ELSE max_results
            /\ \A k \in 1..Len(out) : out[k] \in {r.ngram : r \in Q}
            /\ \A j, k \in 1..Len(out) : j # k => out[j] # out[k]
            /\ \A k \in 1..(Len(out) - 1) :
                  ~Greater(ScoreOf(out[k + 1]), ScoreOf(out[k]))
            /\ \A r \in Q : r.ngram \notin Range(out) =>
                  \A k \in 1..Len(out) : ~Greater(r.waste_score, ScoreOf(out[k]))
            /\ (\A a, b \in Q : a # b => a.waste_score # b.waste_score) =>
                  \A k \in 1..Len(out) :
                      Cardinality({r \in Q : Greater(r.waste_score, ScoreOf(out[k]))})
                          = k - 1
            /\ kw_money_wasters = <<>> => out = <<>>

\* a table in ascending score order with one row below the minimum, cut to
\* one keyword
C18_Witness ==
    /\ kpc = "returned"
    /\ Len(kw_money_wasters) = 3
    /\ Greater(kw_money_wasters[3].waste_score, kw_money_wasters[2].waste_score)
    /\ Cardinality(QualifyingKeywords) = 2
    /\ max_results = 1
    /\ negative_keywords = <<kw_money_wasters[3].ngram>>

\* the tokens of a query that are not stop words
Remaining(q) ==
    SelectSeq(MaximalRuns(str_lower(str(q))), LAMBDA w : w \notin stop_words)

\* the windows of n tokens over t, left to right
WindowsOf(t) ==
    IF Len(t) < n THEN <<>> ELSE [j \in 1..(Len(t) - n + 1) |-> Window(t, j, n)]

\* an n-gram with a token that is a stop word
HasStopWord(g) == \E w \in Range(MaximalRuns(g)) : w \in stop_words

\* C21: with a non-empty stop-word set the stop words are removed before
\* the sliding window is applied: no n-gram of extract_ngrams or
\* analyze_ngrams holds a stop word, and the n-grams are the windows over
\* the remaining tokens; {the, a} on 'the best remortgage deals' at n = 2
\* gives 'best remortgage', 'remortgage deals'.
C21_StopWordsBeforeWindow ==
    stop_words # {} =>
        /\ xpc = "returned" =>
              /\ ngrams = WindowsOf(Remaining(query))
              /\ \A g \in Range(ngrams) : ~HasStopWord(g)
              /\ (query = StopWordScenario /\ n = 2 /\ <<"t","h","e">> \in stop_words) =>
                    ngrams = << <<"b","e","s","t"," ","r","e","m","o","r","t","g","a","g","e">>,
                                <<"r","e","m","o","r","t","g","a","g","e"," ","d","e","a","l","s">> >>
        /\ pc = "done" =>
              /\ \A r \in Range(result) :
                    /\ ~HasStopWord(r.ngram)
                    /\ \E k \in 1..Len(df) :
                          r.ngram \in Range(WindowsOf(Remaining(df[k].query)))
              /\ min_occurrences = 1 =>
                    \A k \in 1..Len(df) :
                        \A g \in Range(WindowsOf(Remaining(df[k].query))) :
                            \E r \in Range(result) : r.ngram = g

\* the tokens on both sides of a removed stop word form a bigram, in the
\* call and in the analysis
C21_Witness ==
    /\ stop_words = {<<"a">>} /\ n = 2
    /\ xpc = "returned" /\ query = <<"_", " ", "a", " ", "_">>
    /\ ngrams = << <<"_", " ", "_">> >>
    /\ pc = "done"
    /\ \E r \in Range(result) : r.ngram = <<"_", " ", "_">>

\* the tokens of the query before the stop words are removed
AllTokens == MaximalRuns(Lowered)

\* the tokens left when only the stop words of `effective` are removed
TokensWithout(effective) == SelectSeq(AllTokens, LAMBDA w : w \notin effective)

\* C27, as stated: matching is exact against the lowercased tokens: a stop
\* word with an uppercase letter removes no token, a lowercase stop word
\* removes every occurrence of its token whatever the case in the query.
C27_UppercaseStopWordInert ==
    cpc # "call" =>
        /\ clean_words =
              TokensWithout({t \in stop_words : \A c \in Range(t) : ~Uppercase(c)})
        /\ \A t \in stop_words : str_lower(t) = t => t \notin Range(clean_words)

\* C27: matching is exact against the lowercased tokens: a stop word with a
\* character that lowercasing changes removes no token, and a stop word
\* that lowercasing leaves alone removes every occurrence of its token
\* whatever the case in the query (an uppercase letter without a lowercase
\* form is such a stop word).
C27_ExactMatchOnLowered ==
    cpc # "call" =>
        /\ clean_words = TokensWithout({t \in stop_words : str_lower(t) = t})
        /\ \A t \in stop_words : str_lower(t) = t => t \notin Range(clean_words)

\* the stop word 'B' leaves the token 'b' of a query written with 'B', next
\* to another token
C27_Witness ==
    /\ cpc = "cleaned"
    /\ stop_words = {<<"B">>}
    /\ query = <<"B", " ", "a">>
    /\ clean_words = << <<"b">>, <<"a">> >>

\* the query texts of rows 1..k, each once per occurrence of g in it
RECURSIVE SourceQueries(_, _)
SourceQueries(k, g) ==
    IF k = 0 THEN <<>>
    ELSE SourceQueries(k - 1, g) \o
         [j \in 1..Occurrences(g, RowNgrams(k)) |-> df[k].query]

\* C30: in every output of analyze_ngrams each n-gram is in at most one
\* row, and a row's queries list has query_count entries: the query texts
\* of the contributing rows in input order, one per occurrence.
C30_UniqueKeyAndQueries ==
    pc = "done" =>
        /\ \A j, k \in 1..Len(result) : j # k => result[j].ngram # result[k].ngram
        /\ \A r \in Range(result) :
              /\ Len(r.queries) = r.query_count
              /\ r.queries = SourceQueries(Len(df), r.ngram)

\* an n-gram of two different rows, in the first more than once
C30_Witness ==
    /\ pc = "done"
    /\ Len(result) >= 2
    /\ \E r \in Range(result) :
          /\ r.query_count >= 3
          /\ r.queries[1] = r.queries[2]
          /\ r.queries[r.query_count] # r.queries[1]

\* the accumulator of analyze_ngrams after rows 1..k of the table as it is
RECURSIVE AccumulatedTo(_)
AccumulatedTo(k) ==
    IF k = 0 THEN <<>>
    ELSE accumulate_all(AccumulatedTo(k - 1), RowNgrams(k), df[k], columns)

\* what analyze_ngrams_vectorized returns for the table as it is
VectorizedAgain ==
    LET copy == [k \in 1..Len(df) |-> with_ngrams(df[k], n, stop_words)]
        exploded == IF "impressions" \in columns
                    THEN notna(explode(copy))
                    ELSE fill_impressions(notna(explode(copy)))
        kept == min_occurrences_filter(groupby_agg(exploded), min_occurrences)
    IN  [k \in 1..Len(kept) |-> derive_metrics(kept[k])]

\* what identify_money_wasters can return for the table as it is
IdentifyAgain ==
    IF waste_df = <<>> THEN {waste_df}
    ELSE LET kept == wasters_at(waste_df, cost_threshold_percentile,
                                cvr_threshold_percentile)
         IN  IF kept = <<>> THEN {kept}
             ELSE sort_values([k \in 1..Len(kept) |->
                                  with_waste_score(kept[k], max_cost(kept))])

\* what generate_negative_keywords can return for the table as it is
KeywordsAgain ==
    IF kw_money_wasters = <<>> THEN {<<>>}
    ELSE {candidates(t, min_waste_score, max_results) :
              t \in sort_values(kw_money_wasters)}

\* after a call, the call repeated on the input as the call left it gives
\* the result, or the failure, the call gave
SameOnRepeat ==
    /\ pc = "done" => result = build_result(AccumulatedTo(Len(df)), min_occurrences)
    /\ pc = "raised" =>
          error = [type |-> "ValueError", columns |-> missing_cols(columns)]
    /\ vpc = "done" => vresult = VectorizedAgain
    /\ vpc = "raised" => verror.type = "KeyError" /\ verror.columns[1] \notin columns
    /\ wpc = "done" => money_wasters \in IdentifyAgain
    /\ kpc = "returned" => negative_keywords \in KeywordsAgain

\* no step of a call changes the rows or the columns of its input table
InputsKept ==
    /\ df' = df
    /\ columns' = columns
    /\ waste_df' = waste_df
    /\ kw_money_wasters' = kw_money_wasters

\* C22: analyze_ngrams, analyze_ngrams_vectorized, identify_money_wasters
\* and generate_negative_keywords leave their input table as it was, after
\* a successful and after a failing call (no ngrams or waste_score column
\* appears in it, no row moves), and the call repeated on it gives the same
\* result.
C22_NoSideEffects == []SameOnRepeat /\ [][InputsKept]_vars

\* the vectorized analysis returned rows and its input has no ngrams column
C22_Witness ==
    /\ vpc = "done"
    /\ vresult # <<>>
    /\ "ngrams" \notin columns
    /\ Len(df_copy) = Len(df)
    /\ \E k \in 1..Len(df_copy) : df_copy[k].ngrams # <<>>

\* the accumulator of a call for size-grams run alone, after rows 1..k
RECURSIVE AloneTo(_, _)
AloneTo(size, k) ==
    IF k = 0 THEN <<>>
    ELSE accumulate_all(AloneTo(size, k - 1),
                        extract_ngrams(df[k].query, size, stop_words), df[k], columns)

\* C23: aggregations for several n that run concurrently over the same
\* input return, under every interleaving of their steps, what each returns
\* when run alone; a step writes its own call's accumulator only and never
\* the shared input.
C23_ConcurrentAsAlone ==
    /\ [](\A w \in DOMAIN wk_pc :
            /\ wk_pc[w] = "done" =>
                  wk_result[w] = build_result(AloneTo(w, Len(df)), min_occurrences)
            /\ wk_pc[w] = "loop" =>
                  wk_ngram_data[w] = AloneTo(w, wk_i[w] - 1)
            /\ wk_pc[w] = "raised" =>
                  wk_error[w] = [type |-> "ValueError", columns |-> missing_cols(columns)])
    /\ [][/\ df' = df /\ columns' = columns
          /\ \A w \in DOMAIN wk_pc :
                (wk_pc'[w] = wk_pc[w] /\ wk_i'[w] = wk_i[w]) =>
                    (wk_ngram_data'[w] = wk_ngram_data[w] /\ wk_result'[w] = wk_result[w])]_vars

\* both calls returned rows, and their steps were interleaved: the results
\* differ as unigrams and bigrams do
C23_Witness ==
    /\ wk_pc = [w \in Workers |-> IF w = 1 THEN "done" ELSE "loop"]
    /\ wk_i[2] = 2 /\ Len(df) = 2
    /\ wk_result[1] # <<>>
    /\ wk_ngram_data[2] # <<>>

\* the records of a table without their queries field
RecordsWithoutQueries(t) ==
    [k \in 1..Len(t.rows) |->
        [c \in (DOMAIN t.rows[k]) \ {"queries"} |-> t.rows[k][c]]]

\* the table a mapping holds under a key
ItemOf(m, key) == m[CHOOSE k \in 1..Len(m) : m[k][1] = key][2]

\* C24: load_analysis of the file save_analysis wrote returns a mapping
\* with the same integer keys, each table holding the records of the saved
\* table without the queries field (same field names, same values); and
\* save_analysis leaves the caller's tables as they were, queries included.
C24_SaveLoadRoundTrip ==
    /\ [](store_pc = "loaded" =>
            /\ {loaded[k][1] : k \in 1..Len(loaded)} = {results[k][1] : k \in 1..Len(results)}
            /\ Len(loaded) = Len(results)
            /\ \A k \in 1..Len(results) :
                  LET back == ItemOf(loaded, results[k][1])
                  IN  /\ back.rows = RecordsWithoutQueries(results[k][2])
                      /\ back.rows # <<>> =>
                            back.columns = SelectSeq(results[k][2].columns,
                                                     LAMBDA c : c # "queries"))
    /\ [][results' = results]_vars

\* a mapping of two tables was saved and loaded: one under the key 10 has a
\* queries column and a row whose n-gram is not ASCII, the other has no rows
C24_Witness ==
    /\ store_pc = "loaded"
    /\ Len(results) = 2
    /\ \E k \in 1..Len(results) :
          /\ results[k][1] = 10
          /\ results[k][2].columns = ResultColumns
          /\ Len(results[k][2].rows) = 1
          /\ results[k][2].rows[1].ngram = <<"C">>
          /\ results[k][2].rows[1].queries # <<>>
          /\ "queries" \notin DOMAIN ItemOf(loaded, 10).rows[1]
    /\ \E k \in 1..Len(results) : results[k][2].rows = <<>>

\* the column names lowercased and trimmed
Trimmed(cols) == {strip(names_str_lower(cols[k])) : k \in 1..Len(cols)}

\* a candidate name of the target is among the names
Present(target, names) == \E c \in Range(COLUMN_MAPPINGS(target)) : c \in names

\* the candidate of highest priority that is among the names
FirstPresent(target, names) ==
    LET cands == COLUMN_MAPPINGS(target)
    IN  cands[CHOOSE j \in 1..Len(cands) :
                 /\ cands[j] \in names
                 /\ \A h \in 1..(j - 1) : cands[h] \notin names]

\* C25: validate_and_map_columns raises the ValueError 'Missing required
\* columns' exactly when a required target has no candidate among the
\* lowercased, trimmed column names; the error names the targets that
\* are absent and no other; every target that is present is read from its
\* first candidate present; impressions is never named and its absence
\* alone never raises.
C25_MissingColumnsNamed ==
    [][val_pc = "start" =>
        LET names == Trimmed(upload_columns)
            absent == {t \in REQUIRED_COLUMNS : ~Present(t, names)}
        IN  /\ absent # {} =>
                  /\ val_pc' = "raised"
                  /\ val_error'.type = "ValueError"
                  /\ val_error'.begins = "Missing required columns"
                  /\ {val_error'.missing[k][1] : k \in 1..Len(val_error'.missing)} = absent
            /\ absent = {} => (val_pc' = "done" /\ val_error' = NoError)
            /\ \A t \in Range(TargetOrder) :
                  Present(t, names) =>
                      /\ t \in DOMAIN mapped'
                      /\ mapped'[t] = FirstPresent(t, names)]_vars

\* cost and conversions are missing and named, while clicks, for which two
\* candidates are columns, and query, typed in mixed case, were found
C25_Witness ==
    /\ val_pc = "raised"
    /\ Len(val_error.missing) = 2
    /\ val_error.missing[1][1] = "cost" /\ val_error.missing[2][1] = "conversions"
    /\ "query" \in DOMAIN mapped /\ "clicks" \in DOMAIN mapped
    /\ mapped["clicks"] = COLUMN_MAPPINGS("clicks")[1]
    /\ COLUMN_MAPPINGS("clicks")[2] \in Range(upload_columns)
    /\ "impressions" \notin DOMAIN mapped

\* a cell parses as a number
Parsable(cell) ==
    \/ cell.kind = "num"
    \/ cell.kind = "str" /\ IsDecimal(cell.value)

\* the rows whose query is neither null nor empty, in input order
RowsWithQuery ==
    SelectSeq([k \in 1..Len(upload_rows) |-> k],
              LAMBDA k : LET q == cell_of(upload_columns, upload_rows[k], mapped["query"])
                         IN  q # Null /\ q # Text(<<>>))

\* C26: a returned table has the columns query, clicks, cost, conversions,
\* impressions; it holds, in input order, exactly the input rows whose
\* query is neither null nor empty; each numeric value is the number its
\* cell parses to, or 0 when it does not parse; and when no impressions
\* column was found, impressions equals clicks in every row.
C26_ValidatedIsClean ==
    val_pc = "done" =>
        /\ validated.columns = <<"query", "clicks", "cost", "conversions", "impressions">>
        /\ Len(validated.rows) = Len(RowsWithQuery)
        /\ \A j \in 1..Len(validated.rows) :
              LET row == upload_rows[RowsWithQuery[j]]
                  out == validated.rows[j]
              IN  /\ DOMAIN out = Range(validated.columns)
                  /\ out.query = cell_of(upload_columns, row, mapped["query"])
                  /\ out.query # Null /\ out.query # Text(<<>>)
                  /\ \A c \in {"clicks", "cost", "conversions", "impressions"} :
                        LET cell == cell_of(upload_columns, row, mapped[c])
                        IN  /\ ~out[c].nan
                            /\ ~Parsable(cell) => out[c].value = 0
                            /\ cell.kind = "num" => out[c].value = cell.value
                  /\ ~Present("impressions", Trimmed(upload_columns)) =>
                        out.impressions = out.clicks

\* a table was returned for an upload without an impressions column: one
\* row was removed for its empty query, the row kept has a cost that did
\* not parse and is 0, and its impressions are its clicks
C26_Witness ==
    /\ val_pc = "done"
    /\ ~Present("impressions", Trimmed(upload_columns))
    /\ Len(upload_rows) = 2 /\ Len(validated.rows) = 1
    /\ ~Parsable(cell_of(upload_columns, upload_rows[RowsWithQuery[1]], mapped["cost"]))
    /\ validated.rows[1].cost.value = 0
    /\ validated.rows[1].clicks.value > 0
    /\ validated.rows[1].impressions = validated.rows[1].clicks

\* the tables analyze_ngrams returns for the arguments, sorted by the sort
\* field in the sort direction (left as it is when it has no rows)
SortedAnalyses(d, size, st) ==
    LET sw == Range(st.stop_words)
        table == build_result(accumulated(d, size, sw, Len(d.rows)), st.min_occurrences)
    IN  IF table = <<>> THEN {table}
        ELSE sort_values_by(table, st.sort_metric, st.sort_ascending)

\* the orders a set of stop words can iterate in
Iterations(S) ==
    {p \in SeqsUpTo(S, Cardinality(S)) : Len(p) = Cardinality(S) /\ Range(p) = S}

\* C28: the cache is transparent.  After every run the table stored for a
\* size is analyze_ngrams of the current table, size, min_occurrences and
\* stop words, sorted by the current sort field and direction; the tables
\* collected during a run, and every entry of the cache, are what the body
\* computes for the arguments of their own key; and stop-word sets with
\* the same members, in whatever order they iterate, are passed as the
\* same tuple.
C28_CacheTransparent ==
    /\ [](/\ (app_pc = "ready" /\ run_count > 0) =>
                \A k \in 1..Len(analyzed_data.items) :
                    analyzed_data.items[k][2] \in
                        SortedAnalyses(app_df, analyzed_data.items[k][1], settings)
          /\ app_pc = "loop" =>
                /\ \A k \in 1..Len(run_results) :
                      run_results[k][2] \in
                          SortedAnalyses(app_df, run_results[k][1], settings)
                /\ \A p \in Iterations(Range(settings.stop_words)) :
                      sorted_tuple(p) = stop_words_tuple)
    /\ [][\A e \in cache' \ cache :
             [ok |-> TRUE, error |-> "none", table |-> e.value] \in
                 run_analysis_body(e.key[1], e.key[2], e.key[3], e.key[4],
                                   e.key[5], e.key[6])]_vars

\* the second run changed only the order the stop words iterate in: every
\* size was served from the cache, which holds the entries of the first run
C28_Witness ==
    /\ app_pc = "ready" /\ run_count = 2
    /\ settings.stop_words = <<<<"c">>, <<"a">>>>
    /\ computed = <<>>
    /\ Len(analyzed_data.items) = 2
    /\ analyzed_data.items[1][2] # <<>>
    /\ Cardinality(cache) = 2

\* the call for a size raises: a required column is missing, or the sort
\* field is not a column of a table that has rows
Fails(d, size, st) ==
    \/ missing_cols(d.columns) # <<>>
    \/ /\ build_result(accumulated(d, size, Range(st.stop_words), Len(d.rows)),
                       st.min_occurrences) # <<>>
       /\ st.sort_metric \notin ResultFields

\* C29: a size that fails does not end the run.  Every size is attempted
\* in the order given; after the run analyzed_data holds, in that order,
\* an entry for each size that succeeded and none for a size that failed
\* (none left from an earlier run, none half-made), and an error was shown
\* for each size that failed.
C29_FailedSizeSkipped ==
    /\ (app_pc = "ready" /\ run_count > 0) =>
          /\ ~analyzed_data.none
          /\ [k \in 1..Len(analyzed_data.items) |-> analyzed_data.items[k][1]]
                = SelectSeq(settings.ngram_sizes, LAMBDA size : ~Fails(app_df, size, settings))
          /\ [k \in 1..Len(shown_errors) |-> shown_errors[k][1]]
                = SelectSeq(settings.ngram_sizes, LAMBDA size : Fails(app_df, size, settings))
    /\ app_pc = "loop" =>
          /\ run_k <= Len(settings.ngram_sizes) + 1
          /\ [k \in 1..Len(run_results) |-> run_results[k][1]]
                = SelectSeq(SubSeq(settings.ngram_sizes, 1, run_k - 1),
                            LAMBDA size : ~Fails(app_df, size, settings))

\* in the second run the first size failed and the second, analysed after
\* it, succeeded; the first run had stored a table for the size that failed
C29_Witness ==
    /\ app_pc = "ready" /\ run_count = 2
    /\ settings.ngram_sizes = <<1, 3>>
    /\ shown_errors = <<<<1, "KeyError">>>>
    /\ Len(analyzed_data.items) = 1 /\ analyzed_data.items[1][1] = 3
    /\ \E e \in cache : e.key[2] = 1 /\ e.key[1] = app_df

====
